---- MODULE Spec2Model ----
(***************************************************************************)
(* Model of the statewide aggregation and label-normalization pipeline of  *)
(* purview-governance: functions/shared/normalizer.py,                     *)
(* functions/shared/table_client.py, functions/shared/validation.py and    *)
(* functions/function_app.py.                                              *)
(*                                                                         *)
(* Python values are modelled as follows.                                  *)
(*   str    a TLA+ string; characters are read with SubSeq(s, i, i)        *)
(*   dict   a function from field names to values; d.get(k, v) is Get      *)
(*   list   a sequence                                                     *)
(*   int    an integer                                                     *)
(*   float  a fixed-point integer counting thousandths (72.5 is 72500);    *)
(*          round(x, 2) rounds such a number to a multiple of 10           *)
(***************************************************************************)
EXTENDS Integers, Sequences, FiniteSets, TLC

VARIABLES
    arg_label_name,   \* normalize_label_tier: argument label_name
    arg_parent_name,  \* normalize_label_tier: argument parent_name
    ret_tier,         \* normalize_label_tier: returned tier, NotCalled before the call
    taxonomy,         \* normalize_labels: the list passed in, enriched in place
    taxonomy_in,      \* normalize_labels: the list as it was before the first call
    calls,            \* normalize_labels: number of calls made on taxonomy
    snapshots,        \* compute_statewide_aggregates: the list of snapshots passed in
    aggregates,       \* compute_statewide_aggregates: the returned dict, NotComputed before
    AgencyPostureSnapshot,  \* the table, a function (PartitionKey, RowKey) -> entity
    LabelNormalizationMap,  \* the table, a function (PartitionKey, RowKey) -> entity
    last_call,        \* the operation of the Function App that ran last
    AssessmentSummary,  \* the table, a function (PartitionKey, RowKey) -> entity
    settings,         \* get_settings(): the allow-lists of the Function App
    request,          \* ingest_posture: the request handled last
    response,         \* ingest_posture: the status code answered last, 0 before
    listed,           \* read_latest_snapshots_all_agencies: all_entities
    selected          \* read_latest_snapshots_all_agencies: what the call gave

tierVars == <<arg_label_name, arg_parent_name, ret_tier>>
labelVars == <<taxonomy, taxonomy_in, calls>>
aggVars == <<snapshots, aggregates>>
storeVars == <<AgencyPostureSnapshot, LabelNormalizationMap, last_call>>
ingestVars == <<AssessmentSummary, settings, request, response>>
selectVars == <<listed, selected>>
vars == <<tierVars, labelVars, aggVars, storeVars, ingestVars, selectVars>>

NotCalled == "<not called>"
None == "<None>"
NotComputed == [not_computed |-> TRUE]

(***************************************************************************)
(* Python built-ins                                                        *)
(***************************************************************************)

\* d.get(k, v)
Get(d, k, v) == IF k \in DOMAIN d THEN d[k] ELSE v

\* d[k] = v on a dict: the key is added when absent
Put(d, k, v) == [f \in DOMAIN d \cup {k} |-> IF f = k THEN v ELSE d[f]]

\* the i-th character of s
Char(s, i) == SubSeq(s, i, i)

UpperLetters == "ABCDEFGHIJKLMNOPQRSTUVWXYZ"
LowerLetters == "abcdefghijklmnopqrstuvwxyz"

\* U+017F, the long s, written $ because the strings of this module are ASCII:
\* str.lower() leaves it as it is, str.upper() and str.swapcase() give S
LongS == "$"

\* str.lower() of one character
LowerChar(c) ==
    IF \E i \in 1..Len(UpperLetters) : Char(UpperLetters, i) = c
    THEN Char(LowerLetters, CHOOSE i \in 1..Len(UpperLetters) : Char(UpperLetters, i) = c)
    ELSE c

RECURSIVE LowerFrom(_, _)
LowerFrom(s, i) ==
    IF i > Len(s) THEN "" ELSE LowerChar(Char(s, i)) \o LowerFrom(s, i + 1)

\* the text as it is, in the case it came in
Lower_Identity(s) == s

\* s.lower()
Lower(s) == LowerFrom(s, 1)

\* whether s[i:i+len(kw)] == kw, compared character by character
RECURSIVE MatchAt(_, _, _, _)
MatchAt(kw, s, i, j) ==
    IF j > Len(kw) THEN TRUE
    ELSE IF i + j - 1 > Len(s) THEN FALSE
    ELSE IF Char(s, i + j - 1) # Char(kw, j) THEN FALSE
    ELSE MatchAt(kw, s, i, j + 1)

\* kw in s at the start of a word only; C14 does not hold of it
RECURSIVE FindFrom_WordStart(_, _, _)
FindFrom_WordStart(kw, s, i) ==
    IF i + Len(kw) - 1 > Len(s) THEN FALSE
    ELSE IF (i = 1 \/ Char(s, i - 1) = " ") /\ MatchAt(kw, s, i, 1) THEN TRUE
    ELSE FindFrom_WordStart(kw, s, i + 1)

\* kw in s, scanning the start positions from the left
RECURSIVE FindFrom(_, _, _)
FindFrom(kw, s, i) ==
    IF i + Len(kw) - 1 > Len(s) THEN FALSE
    ELSE IF MatchAt(kw, s, i, 1) THEN TRUE
    ELSE FindFrom(kw, s, i + 1)

StrIn(kw, s) == FindFrom(kw, s, 1)

(***************************************************************************)
(* functions/shared/normalizer.py: label tiers                             *)
(***************************************************************************)

TIER_KEYWORDS ==
    [ Restricted |->
        << "restricted", "highly confidential", "secret", "top secret",
           "classified", "cui", "cjis", "ferpa", "hipaa", "itar",
           "criminal justice", "law enforcement" >>,
      Confidential |->
        << "confidential", "sensitive", "moderate", "pii", "phi", "fouo",
           "for official use only", "controlled", "protected" >>,
      Internal |->
        << "internal", "general", "organizational", "default", "low",
           "employee", "staff" >>,
      Public |->
        << "public", "unrestricted", "open", "external", "published" >> ]

\* the tuple the for loop of normalize_label_tier walks
TierOrder == << "Restricted", "Confidential", "Internal", "Public" >>

\* f"{parent_name} {label_name}".lower()
Combined(label_name, parent_name) == Lower(parent_name \o " " \o label_name)

\* any(kw in combined for kw in TIER_KEYWORDS[tier])
AnyKeyword(tier, combined) ==
    \E k \in 1..Len(TIER_KEYWORDS[tier]) : StrIn(TIER_KEYWORDS[tier][k], combined)

\* the for loop from its t-th tier on, and the default after it
\* TierFrom falling back to Public; C1 does not hold of it
RECURSIVE TierFrom_DefaultPublic(_, _)
TierFrom_DefaultPublic(combined, t) ==
    IF t > Len(TierOrder) THEN "Public"
    ELSE IF AnyKeyword(TierOrder[t], combined) THEN TierOrder[t]
    ELSE TierFrom_DefaultPublic(combined, t + 1)

RECURSIVE TierFrom(_, _)
TierFrom(combined, t) ==
    IF t > Len(TierOrder) THEN "Internal"
    ELSE IF AnyKeyword(TierOrder[t], combined) THEN TierOrder[t]
    ELSE TierFrom(combined, t + 1)

normalize_label_tier(label_name, parent_name) ==
    TierFrom(Combined(label_name, parent_name), 1)

\* not v, for the values a normalized_tier field carries (JSON null is None)
Falsy(v) == v \in {"", None}

\* NormalizeLabel without the test of normalized_tier; C10 does not hold of it
NormalizeLabel_Always(label) ==
    Put(label, "normalized_tier",
        normalize_label_tier(Get(label, "label_name", ""),
                             Get(label, "parent_label_name", "")))

\* one iteration of the loop of normalize_labels
NormalizeLabel(label) ==
    IF Falsy(Get(label, "normalized_tier", None))
    THEN Put(label, "normalized_tier",
             normalize_label_tier(Get(label, "label_name", ""),
                                  Get(label, "parent_label_name", "")))
    ELSE label

normalize_labels(tax) == [i \in 1..Len(tax) |-> NormalizeLabel(tax[i])]

(***************************************************************************)
(* functions/shared/normalizer.py: statewide aggregates                    *)
(*                                                                         *)
(* A float is a count of thousandths.  A mean or a median is the exact     *)
(* quotient num / den, as statistics computes it, until round(., 2)        *)
(* brings it to a multiple of 10 thousandths.                              *)
(*                                                                         *)
(* round(x, 2) returns the 2-decimal number nearest to the binary float x. *)
(* A decimal that ends in 5 thousandths has no exact binary float, so      *)
(* which of its two neighbours round returns depends on the float that     *)
(* stands for it: round(71.255, 2) is 71.25 and round(52.005, 2) is 52.01. *)
(* The binary representation is not modelled; the set up names the ties    *)
(* that round upwards, and the caller draws it.                            *)
(***************************************************************************)

\* Round2 cutting the third decimal off; C7 does not hold of it
Round2_Truncating(num, den, up) == 10 * (num \div (10 * den))

\* round(num / den, 2) where num / den counts thousandths (den > 0)
Round2(num, den, up) ==
    LET q == num \div (10 * den)
        r == num % (10 * den)
    IN  IF 2 * r < 10 * den THEN 10 * q
        ELSE IF 2 * r > 10 * den THEN 10 * (q + 1)
        ELSE IF (10 * q + 5) \in up THEN 10 * (q + 1) ELSE 10 * q

\* sum(xs), from the i-th element on
RECURSIVE SumFrom(_, _)
SumFrom(xs, i) == IF i > Len(xs) THEN 0 ELSE xs[i] + SumFrom(xs, i + 1)

\* Sum leaving the last element out; C5 does not hold of it
Sum_DropLast(xs) == SumFrom(SubSeq(xs, 1, Len(xs) - 1), 1)

Sum(xs) == SumFrom(xs, 1)

\* xs with x inserted before the first element greater than x
RECURSIVE Insert(_, _)
Insert(xs, x) ==
    IF xs = << >> THEN << x >>
    ELSE IF x < Head(xs) THEN << x >> \o xs
    ELSE << Head(xs) >> \o Insert(Tail(xs), x)

\* sorted(xs)
RECURSIVE SortedFrom(_, _)
SortedFrom(xs, i) ==
    IF i > Len(xs) THEN << >> ELSE Insert(SortedFrom(xs, i + 1), xs[i])

\* sorted leaving the list in the order given; C30 does not hold of it
Sorted_AsGiven(xs) == xs

Sorted(xs) == SortedFrom(xs, 1)

\* statistics.median(xs) as a quotient <<num, den>>
Median(xs) ==
    LET data == Sorted(xs)
        n == Len(data)
        i == n \div 2
    IN  IF n % 2 = 1 THEN << data[i + 1], 1 >>
        ELSE << data[i] + data[i + 1], 2 >>

\* MinIndexFrom keeping the last of several equal minima; C6 does not hold of it
RECURSIVE MinIndexFrom_KeepLast(_, _, _)
MinIndexFrom_KeepLast(keys, i, best) ==
    IF i > Len(keys) THEN best
    ELSE IF keys[i] <= keys[best] THEN MinIndexFrom_KeepLast(keys, i + 1, i)
    ELSE MinIndexFrom_KeepLast(keys, i + 1, best)

\* MaxIndexFrom comparing as MinIndexFrom does; C8 does not hold of it
RECURSIVE MaxIndexFrom_Smallest(_, _, _)
MaxIndexFrom_Smallest(keys, i, best) ==
    IF i > Len(keys) THEN best
    ELSE IF keys[i] < keys[best] THEN MaxIndexFrom_Smallest(keys, i + 1, i)
    ELSE MaxIndexFrom_Smallest(keys, i + 1, best)

\* min over positions i.. of keys, best being the position kept so far: the
\* builtin keeps the first of several equal minima
RECURSIVE MinIndexFrom(_, _, _)
MinIndexFrom(keys, i, best) ==
    IF i > Len(keys) THEN best
    ELSE IF keys[i] < keys[best] THEN MinIndexFrom(keys, i + 1, i)
    ELSE MinIndexFrom(keys, i + 1, best)

RECURSIVE MaxIndexFrom(_, _, _)
MaxIndexFrom(keys, i, best) ==
    IF i > Len(keys) THEN best
    ELSE IF keys[i] > keys[best] THEN MaxIndexFrom(keys, i + 1, i)
    ELSE MaxIndexFrom(keys, i + 1, best)

\* Column with 1 for an absent field; C9 does not hold of it
Column_DefaultOne(snaps, field) == [i \in 1..Len(snaps) |-> Get(snaps[i], field, 1)]

\* [s.get(field, 0) for s in snaps]
Column(snaps, field) == [i \in 1..Len(snaps) |-> Get(snaps[i], field, 0)]

\* the quotients <<num, den>> a call on a non-empty list hands to round
Rounded(snaps) ==
    LET compliance_scores == Column(snaps, "ComplianceScorePct")
        label_coverages == Column(snaps, "LabelCoveragePct")
    IN  [ mean_score |-> << Sum(compliance_scores), Len(compliance_scores) >>,
          median_score |-> Median(compliance_scores),
          min_score |-> << compliance_scores[MinIndexFrom(compliance_scores, 2, 1)], 1 >>,
          max_score |-> << compliance_scores[MaxIndexFrom(compliance_scores, 2, 1)], 1 >>,
          mean_coverage |-> << Sum(label_coverages), Len(label_coverages) >> ]

\* the values among them that lie halfway between two 2-decimal numbers
Ties(snaps) ==
    IF Len(snaps) = 0 THEN {}
    ELSE LET x == Rounded(snaps)
         IN  { x[k][1] \div x[k][2] :
                 k \in { j \in DOMAIN x : /\ x[j][1] % x[j][2] = 0
                                         /\ (x[j][1] \div x[j][2]) % 10 = 5 } }

\* the dict compute_statewide_aggregates builds for a non-empty list, today being
\* the UTC date of the call
Rollup(snaps, today, up) ==
        LET compliance_scores == Column(snaps, "ComplianceScorePct")
            x == Rounded(snaps)
            lowest == snaps[MinIndexFrom(compliance_scores, 2, 1)]
        IN  [ TotalAgencies |-> Len(snaps),
              AvgComplianceScore |-> Round2(x.mean_score[1], x.mean_score[2], up),
              MedianComplianceScore |-> Round2(x.median_score[1], x.median_score[2], up),
              MinComplianceScore |-> Round2(x.min_score[1], x.min_score[2], up),
              MaxComplianceScore |-> Round2(x.max_score[1], x.max_score[2], up),
              LowestComplianceAgency |-> Get(lowest, "PartitionKey", ""),
              AvgLabelCoverage |-> Round2(x.mean_coverage[1], x.mean_coverage[2], up),
              TotalDlpIncidents30d |-> Sum(Column(snaps, "DlpIncidents30d")),
              TotalExternalSharing |-> Sum(Column(snaps, "ExternalSharingCount")),
              TotalInsiderRiskAlerts |-> Sum(Column(snaps, "InsiderRiskTotal")),
              SnapshotDate |-> today ]

\* compute_statewide_aggregates answering an empty list with zeros; C4 does not
\* hold of it
compute_statewide_aggregates_ZeroFilled(snaps, today, up) ==
    IF Len(snaps) = 0
    THEN [ TotalAgencies |-> 0, AvgComplianceScore |-> 0, MedianComplianceScore |-> 0,
           MinComplianceScore |-> 0, MaxComplianceScore |-> 0,
           LowestComplianceAgency |-> "", AvgLabelCoverage |-> 0,
           TotalDlpIncidents30d |-> 0, TotalExternalSharing |-> 0,
           TotalInsiderRiskAlerts |-> 0, SnapshotDate |-> today ]
    ELSE Rollup(snaps, today, up)

\* compute_statewide_aggregates(snapshots); {} is the function of empty domain
compute_statewide_aggregates(snaps, today, up) ==
    IF Len(snaps) = 0 THEN << >> ELSE Rollup(snaps, today, up)

(***************************************************************************)
(* The table store: upsert_entity and list_entities as the in-memory store *)
(* of tests/test_integration/conftest.py provides them.  A listing returns *)
(* the rows in an order the callers do not rely on; every order is         *)
(* modelled.                                                               *)
(***************************************************************************)

\* an upsert that drops the other rows of the entity's partition
upsert_entity_ClearingPartition(table, entity) ==
    LET key == << entity["PartitionKey"], entity["RowKey"] >>
        kept == { k \in DOMAIN table : k[1] # entity["PartitionKey"] }
    IN  [k \in kept \cup {key} |-> IF k = key THEN entity ELSE table[k]]

\* table.upsert_entity(entity)
upsert_entity(table, entity) ==
    LET key == << entity["PartitionKey"], entity["RowKey"] >>
    IN  [k \in DOMAIN table \cup {key} |-> IF k = key THEN entity ELSE table[k]]

\* the lists list(table.list_entities()) can be
Listings(table) ==
    LET n == Cardinality(DOMAIN table)
    IN  { [i \in 1..n |-> table[order[i]]] :
            order \in { f \in [1..n -> DOMAIN table] :
                          \A i, j \in 1..n : i # j => f[i] # f[j] } }

(***************************************************************************)
(* Python's order on str: by code point, a proper prefix coming first      *)
(***************************************************************************)

\* the characters of the keys, in code point order
CodePoints == " +-.0123456789:ABCDEFGHIJKLMNOPQRSTUVWXYZ_abcdefghijklmnopqrstuvwxyz"

\* ord(c), up to where the code points start
OrdTable ==
    [c \in { Char(CodePoints, i) : i \in 1..Len(CodePoints) } |->
        CHOOSE i \in 1..Len(CodePoints) : Char(CodePoints, i) = c]

Ord(c) == OrdTable[c]

\* a > b, from the i-th character on, the characters before being equal: the
\* first position where the two differ decides, and where none does the
\* longer string is the greater
GreaterFrom(a, b, i) ==
    LET n == IF Len(a) < Len(b) THEN Len(a) ELSE Len(b)
        differ == { k \in i..n : Char(a, k) # Char(b, k) }
    IN  IF differ = {} THEN Len(a) > Len(b)
        ELSE LET d == CHOOSE k \in differ : \A j \in i..(k - 1) : j \notin differ
             IN  Ord(Char(a, d)) > Ord(Char(b, d))

\* StrGreater with its operands exchanged; C2 does not hold of it
StrGreater_Exchanged(a, b) == GreaterFrom(b, a, 1)

\* a >= b in place of a > b; C15 does not hold of it
StrGreater_OrEqual(a, b) == a = b \/ GreaterFrom(a, b, 1)

StrGreater(a, b) == GreaterFrom(a, b, 1)

(***************************************************************************)
(* functions/shared/table_client.py                                        *)
(***************************************************************************)

\* current / max without the * 100; C17 does not hold of it
ScoreQuotient_Fraction(payload) ==
    << payload["compliance_score_current"] * 1000, payload["compliance_score_max"] >>

\* compliance_score_current / compliance_score_max * 100 as the quotient
\* <<num, den>> of its thousandths; the two scores of a payload are whole
\* points, its percentages are in thousandths
ScoreQuotient(payload) ==
    << payload["compliance_score_current"] * 100000, payload["compliance_score_max"] >>

\* the value of it that lies halfway between two 2-decimal numbers, if any
ScoreTies(payload) ==
    LET x == ScoreQuotient(payload)
    IN  IF x[2] > 0 /\ x[1] % x[2] = 0 /\ (x[1] \div x[2]) % 10 = 5
        THEN { x[1] \div x[2] } ELSE {}

\* the entity of write_posture_snapshot with the tenant alone as its RowKey
PostureEntity_KeyedByTenant(payload, up) ==
    [ PartitionKey |-> payload["agency_id"],
      RowKey |-> payload["tenant_id"],
      TenantId |-> payload["tenant_id"],
      ComplianceScoreCurrent |-> payload["compliance_score_current"],
      ComplianceScoreMax |-> payload["compliance_score_max"],
      DlpIncidents30d |-> payload["dlp_incidents_30d"],
      LabelCoveragePct |-> payload["label_coverage_pct"] ]

\* the entity write_posture_snapshot builds
PostureEntity(payload, up) ==
    [ PartitionKey |-> payload["agency_id"],
      RowKey |-> payload["timestamp"] \o "_" \o payload["tenant_id"],
      TenantId |-> payload["tenant_id"],
      LabelCoveragePct |-> payload["label_coverage_pct"],
      UnlabeledSensitiveCount |-> payload["unlabeled_sensitive_count"],
      DlpIncidents30d |-> payload["dlp_incidents_30d"],
      DlpIncidents60d |-> payload["dlp_incidents_60d"],
      DlpIncidents90d |-> payload["dlp_incidents_90d"],
      ExternalSharingCount |-> payload["external_sharing_count"],
      RetentionPolicyCount |-> payload["retention_policy_count"],
      RetentionCoveragePct |-> payload["retention_coverage_pct"],
      InsiderRiskHigh |-> payload["insider_risk_high"],
      InsiderRiskMedium |-> payload["insider_risk_medium"],
      InsiderRiskLow |-> payload["insider_risk_low"],
      InsiderRiskTotal |-> payload["insider_risk_total"],
      ComplianceScoreCurrent |-> payload["compliance_score_current"],
      ComplianceScoreMax |-> payload["compliance_score_max"],
      ComplianceScorePct |->
          IF payload["compliance_score_max"] > 0
          THEN Round2(ScoreQuotient(payload)[1], ScoreQuotient(payload)[2], up)
          ELSE 0,
      ImprovementActionsImplemented |-> payload["improvement_actions_implemented"],
      ImprovementActionsPlanned |-> payload["improvement_actions_planned"],
      ImprovementActionsNotStarted |-> payload["improvement_actions_not_started"],
      CollectorVersion |-> payload["collector_version"] ]

\* write_posture_snapshot(payload, normalized_labels), as to AgencyPostureSnapshot
write_posture_snapshot(table, payload, up) ==
    upsert_entity(table, PostureEntity(payload, up))

\* the entity _write_label_map builds for one label, now being the clock's reading
LabelEntity(agency_id, tenant_id, label, now) ==
    [ PartitionKey |-> agency_id,
      RowKey |-> tenant_id \o "_" \o label["label_id"],
      LabelName |-> Get(label, "label_name", ""),
      ParentLabelId |-> Get(label, "parent_label_id", ""),
      NormalizedTier |-> Get(label, "normalized_tier", "Internal"),
      LastSeen |-> now ]

\* _write_label_map from its i-th label on; nows[i] is the clock's reading at
\* the i-th label
RECURSIVE WriteLabelsFrom(_, _, _, _, _, _)
WriteLabelsFrom(table, agency_id, tenant_id, labels, nows, i) ==
    IF i > Len(labels) THEN table
    ELSE WriteLabelsFrom(
             upsert_entity(table, LabelEntity(agency_id, tenant_id, labels[i], nows[i])),
             agency_id, tenant_id, labels, nows, i + 1)

_write_label_map(table, agency_id, tenant_id, labels, nows) ==
    WriteLabelsFrom(table, agency_id, tenant_id, labels, nows, 1)

\* the call returns value
Returns(value) == [ called |-> TRUE, raises |-> "", value |-> value ]

\* the call raises KeyError
KeyError == [ called |-> TRUE, raises |-> "KeyError", value |-> << >> ]

\* the loop of read_latest_snapshots_all_agencies from the i-th entity on;
\* latest is the dict and pks its keys in insertion order.  entity["..."]
\* raises KeyError when the entity has no such key, and `or` evaluates its
\* second operand only when pk is in latest.
RECURSIVE LatestFrom(_, _, _, _)
LatestFrom(all_entities, i, latest, pks) ==
    IF i > Len(all_entities) THEN Returns([j \in 1..Len(pks) |-> latest[pks[j]]])
    ELSE
        LET entity == all_entities[i]
        IN  IF "PartitionKey" \notin DOMAIN entity THEN KeyError
            ELSE
              LET pk == entity["PartitionKey"]
              IN  IF pk \notin DOMAIN latest
                  THEN LatestFrom(all_entities, i + 1, Put(latest, pk, entity),
                                  Append(pks, pk))
                  ELSE IF "RowKey" \notin DOMAIN entity
                          \/ "RowKey" \notin DOMAIN latest[pk]
                  THEN KeyError
                  ELSE IF StrGreater(entity["RowKey"], latest[pk]["RowKey"])
                  THEN LatestFrom(all_entities, i + 1, Put(latest, pk, entity), pks)
                  ELSE LatestFrom(all_entities, i + 1, latest, pks)

\* read_latest_snapshots_all_agencies returning every row; C3 does not hold of it
read_latest_snapshots_all_agencies_Unfiltered(all_entities) == Returns(all_entities)

\* read_latest_snapshots_all_agencies(), all_entities being the listing of
\* AgencyPostureSnapshot
read_latest_snapshots_all_agencies(all_entities) ==
    LatestFrom(all_entities, 1, << >>, << >>)

\* payload["timestamp"][:10]
SnapshotDateOf(timestamp) ==
    SubSeq(timestamp, 1, IF Len(timestamp) < 10 THEN Len(timestamp) ELSE 10)

\* passed / total without the * 100; C19 does not hold of it
PassQuotient_Fraction(assessment) ==
    << Get(assessment, "passed_controls", 0) * 1000,
       Get(assessment, "total_controls", 0) >>

\* passed / total * 100 as the quotient <<num, den>> of its thousandths
PassQuotient(assessment) ==
    << Get(assessment, "passed_controls", 0) * 100000,
       Get(assessment, "total_controls", 0) >>

\* the value of it that lies halfway between two 2-decimal numbers, if any
PassTies(assessment) ==
    LET x == PassQuotient(assessment)
    IN  IF x[2] > 0 /\ x[1] % x[2] = 0 /\ (x[1] \div x[2]) % 10 = 5
        THEN { x[1] \div x[2] } ELSE {}

\* the entity write_assessment_summaries builds for one assessment
AssessmentEntity(payload, assessment, up) ==
    LET total == Get(assessment, "total_controls", 0)
        passed == Get(assessment, "passed_controls", 0)
    IN  [ PartitionKey |-> payload["agency_id"],
          RowKey |-> payload["tenant_id"] \o "_" \o assessment["assessment_id"],
          Regulation |-> Get(assessment, "regulation", ""),
          DisplayName |-> Get(assessment, "display_name", ""),
          ComplianceScore |-> Get(assessment, "compliance_score", 0),
          PassedControls |-> passed,
          FailedControls |-> Get(assessment, "failed_controls", 0),
          TotalControls |-> total,
          PassRate |-> IF total > 0
                       THEN Round2(PassQuotient(assessment)[1],
                                   PassQuotient(assessment)[2], up)
                       ELSE 0,
          ImprovementActionsImplemented |->
              Get(payload, "improvement_actions_implemented", 0),
          ImprovementActionsPlanned |-> Get(payload, "improvement_actions_planned", 0),
          ImprovementActionsNotStarted |->
              Get(payload, "improvement_actions_not_started", 0),
          SnapshotDate |-> SnapshotDateOf(payload["timestamp"]) ]

\* the number of leading dicts of the list that have the key: the loop over
\* the list raises KeyError at the first one that lacks it
RECURSIVE LeadingWith(_, _, _)
LeadingWith(dicts, key, i) ==
    IF i > Len(dicts) \/ key \notin DOMAIN dicts[i] THEN i - 1
    ELSE LeadingWith(dicts, key, i + 1)

\* the upserts with those of write_assessment_summaries made first
WritePlan_SummariesFirst(payload, normalized_labels, up, nows) ==
    LET assessments == Get(payload, "assessments", << >>)
        n_labels == LeadingWith(normalized_labels, "label_id", 1)
        n_assessments == LeadingWith(assessments, "assessment_id", 1)
        snapshot == << [ table |-> "AgencyPostureSnapshot",
                         entity |-> PostureEntity(payload, up) ] >>
        label_map == [ i \in 1..n_labels |->
                         [ table |-> "LabelNormalizationMap",
                           entity |-> LabelEntity(payload["agency_id"],
                                                  payload["tenant_id"],
                                                  normalized_labels[i], nows[i]) ] ]
        summaries == [ i \in 1..n_assessments |->
                         [ table |-> "AssessmentSummary",
                           entity |-> AssessmentEntity(payload, assessments[i], up) ] ]
    IN  [ upserts |-> summaries \o snapshot \o label_map,
          raises |-> n_labels < Len(normalized_labels)
                     \/ n_assessments < Len(assessments) ]

\* the upserts write_posture_snapshot(payload, normalized_labels) followed by
\* write_assessment_summaries(payload) make, in order, and whether building
\* an entity raises KeyError after them; nows[i] is the clock's reading at the
\* i-th label
WritePlan(payload, normalized_labels, up, nows) ==
    LET assessments == Get(payload, "assessments", << >>)
        n_labels == LeadingWith(normalized_labels, "label_id", 1)
        n_assessments == LeadingWith(assessments, "assessment_id", 1)
        snapshot == << [ table |-> "AgencyPostureSnapshot",
                         entity |-> PostureEntity(payload, up) ] >>
        label_map == [ i \in 1..n_labels |->
                         [ table |-> "LabelNormalizationMap",
                           entity |-> LabelEntity(payload["agency_id"],
                                                  payload["tenant_id"],
                                                  normalized_labels[i], nows[i]) ] ]
        summaries == [ i \in 1..n_assessments |->
                         [ table |-> "AssessmentSummary",
                           entity |-> AssessmentEntity(payload, assessments[i], up) ] ]
    IN  IF n_labels < Len(normalized_labels)
        THEN [ upserts |-> snapshot \o label_map, raises |-> TRUE ]
        ELSE [ upserts |-> snapshot \o label_map \o summaries,
               raises |-> n_assessments < Len(assessments) ]

\* the table after the first n upserts of the list, those into other tables
\* left out
RECURSIVE Upserted(_, _, _, _)
Upserted(table, name, upserts, n) ==
    IF n = 0 THEN table
    ELSE LET before == Upserted(table, name, upserts, n - 1)
         IN  IF upserts[n].table = name
             THEN upsert_entity(before, upserts[n].entity)
             ELSE before

(***************************************************************************)
(* functions/shared/validation.py and functions/shared/config.py           *)
(*                                                                         *)
(* A request is a record: cert is the X-ARR-ClientCert header ("" when the *)
(* header is absent), json tells whether req.get_json() parses the body,   *)
(* body is the parsed value.  The values of a body have the JSON type the  *)
(* schema names for their field; numbers of type integer and the two       *)
(* scores are whole, the two percentages count thousandths.                *)
(***************************************************************************)

\* PAYLOAD_SCHEMA["required"]
RequiredFields ==
    { "tenant_id", "agency_id", "timestamp",
      "label_coverage_pct", "unlabeled_sensitive_count",
      "dlp_incidents_30d", "dlp_incidents_60d", "dlp_incidents_90d",
      "external_sharing_count",
      "retention_policy_count", "retention_coverage_pct",
      "insider_risk_high", "insider_risk_medium", "insider_risk_low",
      "insider_risk_total",
      "label_taxonomy",
      "compliance_score_current", "compliance_score_max",
      "assessments",
      "improvement_actions_implemented", "improvement_actions_planned",
      "improvement_actions_not_started",
      "collector_version" }

\* the keys of PAYLOAD_SCHEMA["properties"]; additionalProperties is False
SchemaProperties == RequiredFields

\* the properties {"type": "integer", "minimum": 0}
IntegerFields ==
    { "unlabeled_sensitive_count",
      "dlp_incidents_30d", "dlp_incidents_60d", "dlp_incidents_90d",
      "external_sharing_count", "retention_policy_count",
      "insider_risk_high", "insider_risk_medium", "insider_risk_low",
      "insider_risk_total",
      "improvement_actions_implemented", "improvement_actions_planned",
      "improvement_actions_not_started" }

\* the properties {"type": "number", "minimum": 0, "maximum": 100}
PercentFields == { "label_coverage_pct", "retention_coverage_pct" }

\* the properties {"type": "number", "minimum": 0}
ScoreFields == { "compliance_score_current", "compliance_score_max" }

\* the characters of the class [0-9a-fA-F-]
TenantChars == "0123456789abcdefABCDEF-"

\* the first n characters of s are of the class
InClass(s, n) ==
    \A i \in 1..n : \E k \in 1..Len(TenantChars) : Char(TenantChars, k) = Char(s, i)

\* re.search("^[0-9a-fA-F-]{36}$", s); $ matches at the end and before a
\* newline that ends the string
TenantPattern(s) ==
    \/ Len(s) = 36 /\ InClass(s, 36)
    \/ Len(s) = 37 /\ InClass(s, 36) /\ Char(s, 37) = "\n"

\* jsonschema.validate(instance=payload, schema=PAYLOAD_SCHEMA) raises nothing
SchemaValid(payload) ==
    /\ RequiredFields \subseteq DOMAIN payload
    /\ DOMAIN payload \subseteq SchemaProperties
    /\ \A f \in IntegerFields \cap DOMAIN payload : payload[f] >= 0
    /\ \A f \in PercentFields \cap DOMAIN payload :
          payload[f] >= 0 /\ payload[f] <= 100000
    /\ \A f \in ScoreFields \cap DOMAIN payload : payload[f] >= 0
    /\ "tenant_id" \in DOMAIN payload => TenantPattern(payload["tenant_id"])
    /\ "agency_id" \in DOMAIN payload =>
          Len(payload["agency_id"]) >= 1 /\ Len(payload["agency_id"]) <= 64

\* base64 DER certificates
CertA == "Y2VydC1h"
CertB == "Y2VydC1i"

\* hashlib.sha1(base64.b64decode(cert)).hexdigest() of the two certificates
Sha1Hex(cert) ==
    IF cert = CertA THEN "ff2a9f58ca4075c7495e9dcd5626b5941acd3424"
    ELSE "0a068be4ba3331a40986b1239d9cbfa598300525"

\* str.upper, character by character
UpperChar(c) ==
    IF c = LongS THEN "S"
    ELSE IF \E k \in 1..Len(LowerLetters) : Char(LowerLetters, k) = c
    THEN Char(UpperLetters, CHOOSE k \in 1..Len(LowerLetters) : Char(LowerLetters, k) = c)
    ELSE c

RECURSIVE UpperFrom(_, _)
UpperFrom(s, i) == IF i > Len(s) THEN "" ELSE UpperChar(Char(s, i)) \o UpperFrom(s, i + 1)

Upper(s) == UpperFrom(s, 1)

_extract_thumbprint(client_cert_b64) == Upper(Sha1Hex(client_cert_b64))

\* validate_ingestion_request without its tenant allow-list check
validate_ingestion_request_AnyTenant(req, cfg) ==
    IF cfg.allowed_thumbprints # {} /\ req.cert = ""
    THEN [ error |-> "Missing client certificate", payload |-> << >> ]
    ELSE IF /\ cfg.allowed_thumbprints # {}
            /\ _extract_thumbprint(req.cert) \notin cfg.allowed_thumbprints
    THEN [ error |-> "Certificate thumbprint not in allow-list", payload |-> << >> ]
    ELSE IF ~ req.json
    THEN [ error |-> "Invalid JSON body", payload |-> << >> ]
    ELSE IF ~ SchemaValid(req.body)
    THEN [ error |-> "Schema validation failed", payload |-> << >> ]
    ELSE [ error |-> "", payload |-> req.body ]

\* validate_ingestion_request with the body parsed and checked before the
\* certificate
validate_ingestion_request_BodyFirst(req, cfg) ==
    IF ~ req.json
    THEN [ error |-> "Invalid JSON body", payload |-> << >> ]
    ELSE IF ~ SchemaValid(req.body)
    THEN [ error |-> "Schema validation failed", payload |-> << >> ]
    ELSE IF cfg.allowed_thumbprints # {} /\ req.cert = ""
    THEN [ error |-> "Missing client certificate", payload |-> << >> ]
    ELSE IF /\ cfg.allowed_thumbprints # {}
            /\ _extract_thumbprint(req.cert) \notin cfg.allowed_thumbprints
    THEN [ error |-> "Certificate thumbprint not in allow-list", payload |-> << >> ]
    ELSE IF /\ cfg.allowed_tenants # {}
            /\ req.body["tenant_id"] \notin cfg.allowed_tenants
    THEN [ error |-> "Tenant not in allow-list", payload |-> << >> ]
    ELSE [ error |-> "", payload |-> req.body ]

\* validate_ingestion_request(req): error is "" when it returns the payload and
\* the start of the ValueError's message when it raises
validate_ingestion_request(req, cfg) ==
    IF cfg.allowed_thumbprints # {} /\ req.cert = ""
    THEN [ error |-> "Missing client certificate", payload |-> << >> ]
    ELSE IF /\ cfg.allowed_thumbprints # {}
            /\ _extract_thumbprint(req.cert) \notin cfg.allowed_thumbprints
    THEN [ error |-> "Certificate thumbprint not in allow-list", payload |-> << >> ]
    ELSE IF ~ req.json
    THEN [ error |-> "Invalid JSON body", payload |-> << >> ]
    ELSE IF ~ SchemaValid(req.body)
    THEN [ error |-> "Schema validation failed", payload |-> << >> ]
    ELSE IF /\ cfg.allowed_tenants # {}
            /\ req.body["tenant_id"] \notin cfg.allowed_tenants
    THEN [ error |-> "Tenant not in allow-list", payload |-> << >> ]
    ELSE [ error |-> "", payload |-> req.body ]

(***************************************************************************)
(* Calls of normalize_label_tier on names drawn from LabelNames and        *)
(* ParentNames                                                             *)
(***************************************************************************)

LabelNames ==
    { "Public", "PUBLIC", "Internal", "Confidential", "confidential", "PII",
      "Restricted - FERPA", "RESTRICTED", "CJIS Data", "HIPAA Protected",
      "For Official Use Only", "Some Custom Label", "Not Restricted For Staff",
      "Unrestricted", "Published Staff Handbook", "Secret", "Open", "lic", "",
      "re" \o LongS \o "tricted" }

ParentNames == { "", "Confidential", "Highly", "Pub", "Public", "Custom" }

LabelsIdle == taxonomy = << >> /\ taxonomy_in = << >> /\ calls = 0

AggIdle == snapshots = << >> /\ aggregates = NotComputed

\* no allow-list is configured: ALLOWED_TENANT_IDS and ALLOWED_CERT_THUMBPRINTS
\* are empty by default
DevSettings == [ allowed_thumbprints |-> {}, allowed_tenants |-> {} ]

\* a request before any was made
NoRequest == [ cert |-> "", json |-> FALSE, body |-> << >> ]

IngestIdle ==
    /\ AssessmentSummary = << >>
    /\ settings = DevSettings
    /\ request = NoRequest
    /\ response = 0

\* read_latest_snapshots_all_agencies has not been called
NotSelected == [ called |-> FALSE ]

SelectIdle == listed = << >> /\ selected = NotSelected

StoreIdle ==
    AgencyPostureSnapshot = << >> /\ LabelNormalizationMap = << >> /\ last_call = "none"

TierIdle == arg_label_name = "" /\ arg_parent_name = "" /\ ret_tier = NotCalled

InitTier ==
    /\ arg_label_name \in LabelNames
    /\ arg_parent_name \in ParentNames
    /\ ret_tier = NotCalled
    /\ LabelsIdle
    /\ AggIdle
    /\ StoreIdle
    /\ IngestIdle
    /\ SelectIdle

Call_normalize_label_tier ==
    /\ ret_tier = NotCalled
    /\ ret_tier' = normalize_label_tier(arg_label_name, arg_parent_name)
    /\ UNCHANGED <<arg_label_name, arg_parent_name, labelVars, aggVars, storeVars, ingestVars,
                 selectVars>>

NextTier == Call_normalize_label_tier

SpecTier == InitTier /\ [][NextTier]_vars

(***************************************************************************)
(* Calls of normalize_labels on taxonomies of at most MaxLabels entries    *)
(***************************************************************************)

MaxLabels == 2
MaxCalls == 2

LabelEntries ==
    { [label_id |-> "1", label_name |-> "Public"],
      [label_id |-> "2", label_name |-> "Custom", normalized_tier |-> "Confidential"],
      [label_id |-> "3", label_name |-> "PII", parent_label_id |-> "2",
       parent_label_name |-> "Highly Confidential"],
      [label_id |-> "4", label_name |-> "Restricted - FERPA", normalized_tier |-> ""],
      [label_id |-> "5", label_name |-> "Public", normalized_tier |-> "Restricted"],
      [label_id |-> "6", tooltip |-> "no name"],
      [label_id |-> "7", label_name |-> "Open", normalized_tier |-> None],
      [label_id |-> "lbl-002", label_name |-> "Confidential - PII",
       parent_label_id |-> "lbl-003", tooltip |-> ""],
      [label_id |-> "lbl-003", label_name |-> "Restricted - FERPA",
       parent_label_id |-> None, tooltip |-> ""] }

Taxonomies == UNION { [1..n -> LabelEntries] : n \in 0..MaxLabels }

InitLabels ==
    /\ taxonomy_in \in Taxonomies
    /\ taxonomy = taxonomy_in
    /\ calls = 0
    /\ TierIdle
    /\ AggIdle
    /\ StoreIdle
    /\ IngestIdle
    /\ SelectIdle

Call_normalize_labels ==
    /\ calls < MaxCalls
    /\ taxonomy' = normalize_labels(taxonomy)
    /\ calls' = calls + 1
    /\ UNCHANGED <<taxonomy_in, tierVars, aggVars, storeVars, ingestVars, selectVars>>

NextLabels == Call_normalize_labels

SpecLabels == InitLabels /\ [][NextLabels]_vars

(***************************************************************************)
(* Calls of compute_statewide_aggregates on lists of at most MaxSnapshots  *)
(* snapshots                                                               *)
(***************************************************************************)

MaxSnapshots == 3

\* the entities of tests/conftest.py::sample_snapshots, then: a second snapshot
\* of dept-of-education with the lowest score of the three, an entity with no
\* metric field, one with no PartitionKey, and one whose percentages have a
\* third decimal
SnapshotPool ==
    { [ PartitionKey |-> "dept-of-education", RowKey |-> "2026-02-26T14:30:00_tenant-1",
        ComplianceScorePct |-> 72000, LabelCoveragePct |-> 72500, DlpIncidents30d |-> 15,
        ExternalSharingCount |-> 234, InsiderRiskTotal |-> 19, RetentionCoveragePct |-> 65000 ],
      [ PartitionKey |-> "dept-of-health", RowKey |-> "2026-02-26T14:30:00_tenant-2",
        ComplianceScorePct |-> 85000, LabelCoveragePct |-> 88000, DlpIncidents30d |-> 3,
        ExternalSharingCount |-> 50, InsiderRiskTotal |-> 2, RetentionCoveragePct |-> 90000 ],
      [ PartitionKey |-> "dept-of-corrections", RowKey |-> "2026-02-26T14:30:00_tenant-3",
        ComplianceScorePct |-> 38200, LabelCoveragePct |-> 34000, DlpIncidents30d |-> 42,
        ExternalSharingCount |-> 567, InsiderRiskTotal |-> 31, RetentionCoveragePct |-> 25000 ],
      [ PartitionKey |-> "dept-of-education", RowKey |-> "2026-01-01T09:00:00_tenant-1",
        ComplianceScorePct |-> 38200, LabelCoveragePct |-> 70010, DlpIncidents30d |-> 7,
        ExternalSharingCount |-> 1, InsiderRiskTotal |-> 4, RetentionCoveragePct |-> 65000 ],
      [ PartitionKey |-> "dept-of-transport", RowKey |-> "2026-02-26T14:30:00_tenant-4" ],
      [ RowKey |-> "2026-02-26T14:30:00_tenant-5",
        ComplianceScorePct |-> 0, LabelCoveragePct |-> 100000, DlpIncidents30d |-> 1 ],
      [ PartitionKey |-> "dept-of-revenue", RowKey |-> "2026-02-26T14:30:00_tenant-6",
        ComplianceScorePct |-> 38204, LabelCoveragePct |-> 33335, DlpIncidents30d |-> 2,
        ExternalSharingCount |-> 3, InsiderRiskTotal |-> 5, RetentionCoveragePct |-> 12345 ] }

SnapshotLists == UNION { [1..n -> SnapshotPool] : n \in 0..MaxSnapshots }

\* the UTC dates datetime.now can give
Dates == { "2026-02-26", "2026-02-27" }

InitAgg ==
    /\ snapshots \in SnapshotLists
    /\ aggregates = NotComputed
    /\ TierIdle
    /\ LabelsIdle
    /\ StoreIdle
    /\ IngestIdle
    /\ SelectIdle

Call_compute_statewide_aggregates ==
    /\ aggregates = NotComputed
    /\ \E today \in Dates, up \in SUBSET Ties(snapshots) :
          aggregates' = compute_statewide_aggregates(snapshots, today, up)
    /\ UNCHANGED <<snapshots, tierVars, labelVars, storeVars, ingestVars, selectVars>>

NextAgg == Call_compute_statewide_aggregates

SpecAgg == InitAgg /\ [][NextAgg]_vars

(***************************************************************************)
(* The store under calls of write_posture_snapshot and runs of the         *)
(* compute_aggregates timer                                                *)
(***************************************************************************)

TenantA == "aaaaaaaa-0000-0000-0000-00000000000a"
TenantB == "bbbbbbbb-0000-0000-0000-00000000000b"
TenantC == "cccccccc-0000-0000-0000-00000000000c"

\* timestamps as collector/payload.py writes them, datetime.now(timezone.utc)
\* .isoformat(): January, February 26th at midnight and 250 microseconds later
January == "2026-01-01T00:00:00+00:00"
February == "2026-02-26T00:00:00+00:00"
FebruaryLater == "2026-02-26T00:00:00.000250+00:00"

\* a timestamp of a clock two hours east of UTC, an hour before February; the
\* schema of the ingestion endpoint takes every string
FebruaryEast == "2026-02-26T01:00:00+02:00"

\* tests/conftest.py::sample_payload, with the fields the payloads differ in
Payload(agency_id, tenant_id, timestamp, current, max, dlp, label_taxonomy) ==
    [ tenant_id |-> tenant_id,
      agency_id |-> agency_id,
      timestamp |-> timestamp,
      label_coverage_pct |-> 72500,
      unlabeled_sensitive_count |-> 143,
      dlp_incidents_30d |-> dlp,
      dlp_incidents_60d |-> 28,
      dlp_incidents_90d |-> 45,
      external_sharing_count |-> 234,
      retention_policy_count |-> 8,
      retention_coverage_pct |-> 65000,
      insider_risk_high |-> 2,
      insider_risk_medium |-> 5,
      insider_risk_low |-> 12,
      insider_risk_total |-> 19,
      label_taxonomy |-> label_taxonomy,
      compliance_score_current |-> current,
      compliance_score_max |-> max,
      assessments |-> << >>,
      improvement_actions_implemented |-> 20,
      improvement_actions_planned |-> 15,
      improvement_actions_not_started |-> 8,
      collector_version |-> "1.0.0" ]

SampleTaxonomy ==
    << [label_id |-> "1", label_name |-> "Public"],
       [label_id |-> "2", label_name |-> "PII", parent_label_id |-> "3",
        parent_label_name |-> "Highly Confidential"] >>

Payloads ==
    { Payload("dept-a", TenantA, January, 50, 100, 5, << >>),
      Payload("dept-a", TenantA, February, 80, 100, 3, SampleTaxonomy),
      Payload("dept-a", TenantA, February, 1, 3, 9, << >>),
      Payload("dept-b", TenantB, FebruaryLater, 0, 0, 15, << >>),
      Payload("dept-b", TenantC, FebruaryEast, 1, 800, 2, << >>) }

\* the readings of the clock _write_label_map takes
Instants == { "2026-02-26T00:00:01+00:00", "2026-02-27T06:00:00+00:00" }

Init ==
    /\ AgencyPostureSnapshot = << >>
    /\ LabelNormalizationMap = << >>
    /\ last_call = "none"
    /\ TierIdle
    /\ LabelsIdle
    /\ AggIdle
    /\ IngestIdle
    /\ SelectIdle

\* write_posture_snapshot(payload, normalized_labels), called as ingest_posture
\* calls it or with no labels as the tests call it
Call_write_posture_snapshot ==
    \E payload \in Payloads, up \in SUBSET UNION { ScoreTies(p) : p \in Payloads } :
      \E normalized_labels \in { << >>, normalize_labels(payload["label_taxonomy"]) } :
        \E nows \in [1..Len(normalized_labels) -> Instants] :
          /\ AgencyPostureSnapshot' =
                 write_posture_snapshot(AgencyPostureSnapshot, payload, up)
          /\ LabelNormalizationMap' =
                 _write_label_map(LabelNormalizationMap, payload["agency_id"],
                                  payload["tenant_id"], normalized_labels, nows)
          /\ last_call' = "write_posture_snapshot"
          /\ snapshots' = << >>
          /\ aggregates' = NotComputed
          /\ UNCHANGED <<tierVars, labelVars, ingestVars, selectVars>>

\* the timer: snapshots and aggregates are its locals, aggregates is not
\* computed when no snapshot is found
compute_aggregates ==
    \E all_entities \in Listings(AgencyPostureSnapshot), today \in Dates :
      LET read == read_latest_snapshots_all_agencies(all_entities)
          latest == read.value
      IN  /\ last_call' = "compute_aggregates"
          /\ UNCHANGED <<AgencyPostureSnapshot, LabelNormalizationMap,
                         tierVars, labelVars, ingestVars, selectVars>>
          /\ IF read.raises # ""
             THEN UNCHANGED <<snapshots, aggregates>>
             ELSE \E up \in SUBSET Ties(latest) :
                    /\ snapshots' = latest
                    /\ aggregates' = IF Len(latest) = 0 THEN NotComputed
                                     ELSE compute_statewide_aggregates(latest, today, up)

Next == Call_write_posture_snapshot \/ compute_aggregates

Spec == Init /\ [][Next]_vars

(***************************************************************************)
(* The ingestion endpoint under requests drawn from Requests               *)
(***************************************************************************)

\* tests/conftest.py::sample_payload
SamplePayload ==
    Put(Payload("dept-of-education", "a1b2c3d4-e5f6-7890-abcd-ef1234567890",
                "2026-02-26T14:30:00+00:00", 72, 100, 15,
                << [label_id |-> "lbl-001", label_name |-> "Public",
                    parent_label_id |-> None, tooltip |-> ""],
                   [label_id |-> "lbl-002", label_name |-> "Confidential - PII",
                    parent_label_id |-> "lbl-003", tooltip |-> ""],
                   [label_id |-> "lbl-003", label_name |-> "Restricted - FERPA",
                    parent_label_id |-> None, tooltip |-> ""] >>),
        "assessments",
        << [assessment_id |-> "asmt-001", regulation |-> "NIST 800-53",
            display_name |-> "NIST 800-53 Rev 5", compliance_score |-> 68000,
            passed_controls |-> 45, failed_controls |-> 12, total_controls |-> 57] >>)

\* del d[k]
Without(d, k) == [f \in DOMAIN d \ {k} |-> d[f]]

\* a body with no taxonomy and no assessment
BarePayload ==
    Put(Put(SamplePayload, "label_taxonomy", << >>), "assessments", << >>)

\* bodies the schema accepts
AcceptedBodies ==
    { SamplePayload,
      \* a label that comes with a tier of its own; assessments without controls
      Put(Put(BarePayload, "label_taxonomy",
              << [label_id |-> "lbl-010", label_name |-> "Public",
                  normalized_tier |-> "Gold"] >>),
          "assessments",
          << [assessment_id |-> "asmt-002", passed_controls |-> 3,
              total_controls |-> 0],
             [assessment_id |-> "asmt-003", passed_controls |-> 5] >>),
      \* a score above its maximum, sent by another tenant in January
      Put(Put(Put(Put(BarePayload, "tenant_id", TenantB), "timestamp", January),
              "compliance_score_current", 150), "compliance_score_max", 100),
      \* no maximum score, sent by that tenant in January too
      Put(Put(Put(Put(BarePayload, "tenant_id", TenantB), "timestamp", January),
              "compliance_score_current", 0), "compliance_score_max", 0),
      \* a score of a third of the maximum; a second label without label_id
      Put(Put(Put(BarePayload, "compliance_score_current", 1),
              "compliance_score_max", 3),
          "label_taxonomy",
          << [label_id |-> "lbl-001", label_name |-> "Public"],
             [label_name |-> "Internal"] >>),
      \* a tenant_id of 36 hexadecimal digits and dashes grouped 9-3-4-4-12
      Put(BarePayload, "tenant_id", "a1b2c3d4e-5f6-7890-abcd-ef1234567890"),
      \* an assessment without assessment_id
      Put(BarePayload, "assessments",
          << [regulation |-> "HIPAA", passed_controls |-> 1, total_controls |-> 800] >>) }

\* bodies the schema rejects, as TestIngestPipelineValidation makes them
RejectedBodies ==
    { Without(SamplePayload, "compliance_score_current"),
      Put(SamplePayload, "tenant_id", "not-a-uuid"),
      Put(SamplePayload, "unexpected_field", "not allowed"),
      Put(SamplePayload, "compliance_score_pct", 99000),
      Put(SamplePayload, "label_coverage_pct", 150000),
      Put(SamplePayload, "retention_coverage_pct", -1),
      Put(SamplePayload, "dlp_incidents_30d", -1),
      Put(SamplePayload, "agency_id", "") }

Requests ==
    { [ cert |-> "", json |-> TRUE, body |-> b ] : b \in AcceptedBodies \cup RejectedBodies }
    \cup { [ cert |-> "", json |-> FALSE, body |-> << >> ] }
    \cup { [ cert |-> c, json |-> TRUE, body |-> SamplePayload ] : c \in {CertA, CertB} }
    \cup { [ cert |-> c, json |-> FALSE, body |-> << >> ] : c \in {CertA, CertB} }
    \cup { [ cert |-> CertB, json |-> TRUE, body |-> Put(SamplePayload, "tenant_id", "not-a-uuid") ] }

\* ALLOWED_CERT_THUMBPRINTS and ALLOWED_TENANT_IDS as deployments set them
SettingsPool ==
    { DevSettings,
      [ allowed_thumbprints |-> { _extract_thumbprint(CertA) }, allowed_tenants |-> {} ],
      [ allowed_thumbprints |-> {},
        allowed_tenants |-> { "a1b2c3d4-e5f6-7890-abcd-ef1234567890" } ] }

\* datetime.now(timezone.utc).isoformat() while the requests are served
RequestInstants == { "2026-02-26T14:30:05+00:00" }

\* the readings a clock can give at n successive calls
Readings(n) ==
    { nows \in [1..n -> RequestInstants] :
        \A i, j \in 1..n : i < j => ~ StrGreater(nows[i], nows[j]) }

InitIngest ==
    /\ AgencyPostureSnapshot = << >>
    /\ LabelNormalizationMap = << >>
    /\ AssessmentSummary = << >>
    /\ last_call = "none"
    /\ settings \in SettingsPool
    /\ request = NoRequest
    /\ response = 0
    /\ TierIdle
    /\ LabelsIdle
    /\ AggIdle
    /\ SelectIdle

\* validate_ingestion_request on the requests of the pool under the settings
\* of the pool
Validated ==
    [ cfg \in SettingsPool |->
        [ req \in Requests |-> validate_ingestion_request(req, cfg) ] ]

\* what ingest_posture can hand to the storage service for a validated payload:
\* the write plans over the roundings of ties and the readings of the clock
PlansOf(payload) ==
    LET normalized_labels == normalize_labels(Get(payload, "label_taxonomy", << >>))
        ties == ScoreTies(payload) \cup
                UNION { PassTies(payload["assessments"][i]) :
                          i \in 1..Len(payload["assessments"]) }
    IN  { WritePlan(payload, normalized_labels, up, nows) :
            up \in SUBSET ties, nows \in Readings(Len(normalized_labels)) }

\* PlansOf on the bodies of the pool
Plans == [ payload \in AcceptedBodies |-> PlansOf(payload) ]

\* ingest_posture(req): 400 when validation raises ValueError; otherwise the
\* upserts are made in order until one raises (the storage service, or KeyError
\* while an entity is built), which gives 500; 200 when none does.  done is
\* the number of upserts the storage service completes.
ingest_posture ==
    \E req \in Requests :
      LET validated == Validated[settings][req]
      IN  /\ request' = req
          /\ last_call' = "ingest_posture"
          /\ UNCHANGED <<settings, tierVars, labelVars, aggVars, selectVars>>
          /\ IF validated.error # ""
             THEN /\ response' = 400
                  /\ UNCHANGED <<AgencyPostureSnapshot, LabelNormalizationMap,
                                 AssessmentSummary>>
             ELSE \E plan \in Plans[validated.payload] :
                    \E done \in 0..Len(plan.upserts) :
                      /\ AgencyPostureSnapshot' =
                             Upserted(AgencyPostureSnapshot,
                                      "AgencyPostureSnapshot", plan.upserts, done)
                      /\ LabelNormalizationMap' =
                             Upserted(LabelNormalizationMap,
                                      "LabelNormalizationMap", plan.upserts, done)
                      /\ AssessmentSummary' =
                             Upserted(AssessmentSummary,
                                      "AssessmentSummary", plan.upserts, done)
                      /\ response' = IF done = Len(plan.upserts) /\ ~ plan.raises
                                     THEN 200 ELSE 500

NextIngest == ingest_posture

SpecIngest == InitIngest /\ [][NextIngest]_vars

(***************************************************************************)
(* read_latest_snapshots_all_agencies on lists of entities drawn from      *)
(* EntityLists                                                             *)
(***************************************************************************)

MaxListed == 3

\* the rows two submissions of one agency, tenant and timestamp make: the same
\* keys, another content
FebruaryRow == PostureEntity(Payload("dept-a", TenantA, February, 80, 100, 3, << >>), {})
FebruaryRowAgain == PostureEntity(Payload("dept-a", TenantA, February, 1, 3, 9, << >>), {})

\* entities as the table holds them, and entities whose RowKey is not a
\* timestamp and a tenant, or is not there
EntityPool ==
    { PostureEntity(Payload("dept-a", TenantA, January, 50, 100, 5, << >>), {}),
      FebruaryRow,
      FebruaryRowAgain,
      PostureEntity(Payload("dept-b", TenantB, FebruaryLater, 0, 0, 15, << >>), {}),
      Put(FebruaryRow, "RowKey", "not-a-sort-key"),
      Without(FebruaryRowAgain, "RowKey") }

EntityLists == UNION { [1..n -> EntityPool] : n \in 0..MaxListed }

InitSelect ==
    /\ listed \in EntityLists
    /\ selected = NotSelected
    /\ TierIdle
    /\ LabelsIdle
    /\ AggIdle
    /\ StoreIdle
    /\ IngestIdle

Call_read_latest_snapshots_all_agencies ==
    /\ selected = NotSelected
    /\ selected' = read_latest_snapshots_all_agencies(listed)
    /\ UNCHANGED <<listed, tierVars, labelVars, aggVars, storeVars, ingestVars>>

NextSelect == Call_read_latest_snapshots_all_agencies

SpecSelect == InitSelect /\ [][NextSelect]_vars

(***************************************************************************)
(* Claims about normalize_label_tier, checked under SpecTier               *)
(***************************************************************************)

Tiers == { "Public", "Internal", "Confidential", "Restricted" }

\* kw occurs in s at some position
Occurs(kw, s) ==
    \E i \in 1..(Len(s) - Len(kw) + 1) : SubSeq(s, i, i + Len(kw) - 1) = kw

\* some keyword listed under tier occurs in text
TierMatches(tier, text) ==
    \E k \in DOMAIN TIER_KEYWORDS[tier] : Occurs(TIER_KEYWORDS[tier][k], text)

\* the results test_normalizer.py::TestNormalizeLabelTier asserts
TierOracle ==
    /\ arg_parent_name = "" =>
        /\ arg_label_name = "Public" => ret_tier = "Public"
        /\ arg_label_name = "Internal" => ret_tier = "Internal"
        /\ arg_label_name = "Confidential" => ret_tier = "Confidential"
        /\ arg_label_name = "Restricted - FERPA" => ret_tier = "Restricted"
        /\ arg_label_name = "CJIS Data" => ret_tier = "Restricted"
        /\ arg_label_name = "HIPAA Protected" => ret_tier = "Restricted"
        /\ arg_label_name = "For Official Use Only" => ret_tier = "Confidential"
        /\ arg_label_name = "Some Custom Label" => ret_tier = "Internal"
        /\ arg_label_name = "PUBLIC" => ret_tier = "Public"
        /\ arg_label_name = "RESTRICTED" => ret_tier = "Restricted"
    /\ arg_parent_name = "Confidential" /\ arg_label_name = "PII" => ret_tier = "Confidential"

\* C1: for every label_name and parent_name, normalize_label_tier returns the
\* first tier, in the order Restricted, Confidential, Internal, Public, one of
\* whose keywords occurs in the lowercased text made of parent_name, a space
\* and label_name; it returns Internal when no keyword occurs; the result is
\* always one of the four tiers (the call never raises), and it is the result
\* the repository's tests assert.
C1_FirstMatchingTier ==
    ret_tier # NotCalled =>
        LET text == Lower(arg_parent_name \o " " \o arg_label_name)
            hits == { t \in 1..Len(TierOrder) : TierMatches(TierOrder[t], text) }
        IN  /\ ret_tier \in Tiers
            /\ TierOrder = << "Restricted", "Confidential", "Internal", "Public" >>
            /\ hits = {} => ret_tier = "Internal"
            /\ hits # {} =>
                 ret_tier = TierOrder[CHOOSE t \in hits : \A u \in hits : t <= u]
            /\ TierOracle

\* C1 with the text read as parent_name immediately followed by label_name
C1_FirstMatchingTierOfJoinedText ==
    ret_tier # NotCalled =>
        LET text == Lower(arg_parent_name \o arg_label_name)
            hits == { t \in 1..Len(TierOrder) : TierMatches(TierOrder[t], text) }
        IN  /\ ret_tier \in Tiers
            /\ hits = {} => ret_tier = "Internal"
            /\ hits # {} =>
                 ret_tier = TierOrder[CHOOSE t \in hits : \A u \in hits : t <= u]

\* a label naming keywords of two tiers was classified by the higher one
C1_Witness ==
    /\ arg_label_name = "HIPAA Protected"
    /\ arg_parent_name = "Public"
    /\ ret_tier = "Restricted"

(***************************************************************************)
(* Claims about normalize_labels, checked under SpecLabels                 *)
(***************************************************************************)

\* the entry has a normalized_tier that is set (non-empty)
TierSet(label) ==
    "normalized_tier" \in DOMAIN label /\ label["normalized_tier"] \notin {"", None}

\* C10: normalize_labels leaves every entry whose normalized_tier is already
\* set exactly as it was, attaches to every other entry the tier computed from
\* its label_name and parent_label_name and changes nothing else in it, and
\* returns as many entries in the same order; so a taxonomy whose entries all
\* have a tier is returned unchanged, and a second call changes nothing.
C10_NormalizeLabelsPreserves ==
    calls >= 1 =>
        /\ Len(taxonomy) = Len(taxonomy_in)
        /\ \A i \in 1..Len(taxonomy_in) :
              LET old == taxonomy_in[i]
                  new == taxonomy[i]
              IN  IF TierSet(old)
                  THEN new = old
                  ELSE /\ DOMAIN new = DOMAIN old \cup {"normalized_tier"}
                       /\ \A f \in DOMAIN old \ {"normalized_tier"} : new[f] = old[f]
                       /\ new["normalized_tier"] \in Tiers
                       /\ new["normalized_tier"] =
                             normalize_label_tier(
                                 IF "label_name" \in DOMAIN old THEN old["label_name"] ELSE "",
                                 IF "parent_label_name" \in DOMAIN old
                                 THEN old["parent_label_name"] ELSE "")
        /\ (\A i \in 1..Len(taxonomy_in) : TierSet(taxonomy_in[i])) => taxonomy = taxonomy_in

\* two calls were made on a taxonomy with an entry whose preset tier differs from
\* the computed one, followed by an entry that had no tier
C10_Witness ==
    /\ calls = 2
    /\ Len(taxonomy_in) = 2
    /\ taxonomy_in[1] = [label_id |-> "5", label_name |-> "Public", normalized_tier |-> "Restricted"]
    /\ taxonomy[1]["normalized_tier"] = "Restricted"
    /\ taxonomy_in[2] = [label_id |-> "1", label_name |-> "Public"]
    /\ taxonomy[2]["normalized_tier"] = "Public"

(***************************************************************************)
(* Claims about compute_statewide_aggregates, checked under SpecAgg        *)
(***************************************************************************)

AggregateFields ==
    { "TotalAgencies", "AvgComplianceScore", "MedianComplianceScore",
      "MinComplianceScore", "MaxComplianceScore", "LowestComplianceAgency",
      "AvgLabelCoverage", "TotalDlpIncidents30d", "TotalExternalSharing",
      "TotalInsiderRiskAlerts", "SnapshotDate" }

Computed == aggregates # NotComputed

\* the value of a metric of a snapshot, an absent one counting as 0
Metric(s, field) == IF field \in DOMAIN s THEN s[field] ELSE 0

\* the agency id of a snapshot
AgencyOf(s) == IF "PartitionKey" \in DOMAIN s THEN s["PartitionKey"] ELSE ""

\* the metric summed over the first n snapshots
RECURSIVE TotalOf(_, _, _)
TotalOf(snaps, field, n) ==
    IF n = 0 THEN 0 ELSE TotalOf(snaps, field, n - 1) + Metric(snaps[n], field)

Abs(x) == IF x < 0 THEN -x ELSE x

\* r is num / den rounded to 2 decimal places: a whole number of hundredths
\* at most half a hundredth away from num / den
IsRounded2(r, num, den) == r % 10 = 0 /\ 2 * Abs(den * r - num) <= 10 * den

\* the k-th smallest value of the metric, repetitions counted
KthSmallest(snaps, field, k) ==
    CHOOSE x \in { Metric(snaps[i], field) : i \in 1..Len(snaps) } :
        /\ Cardinality({ i \in 1..Len(snaps) : Metric(snaps[i], field) < x }) < k
        /\ Cardinality({ i \in 1..Len(snaps) : Metric(snaps[i], field) <= x }) >= k

\* r is the median of the metric rounded to 2 decimal places
IsRoundedMedian(r, snaps, field) ==
    LET n == Len(snaps)
    IN  IF n % 2 = 1
        THEN IsRounded2(r, KthSmallest(snaps, field, (n + 1) \div 2), 1)
        ELSE IsRounded2(r, KthSmallest(snaps, field, n \div 2)
                           + KthSmallest(snaps, field, n \div 2 + 1), 2)

\* tests/conftest.py::sample_snapshots
SampleSnapshots ==
    << [ PartitionKey |-> "dept-of-education", RowKey |-> "2026-02-26T14:30:00_tenant-1",
         ComplianceScorePct |-> 72000, LabelCoveragePct |-> 72500, DlpIncidents30d |-> 15,
         ExternalSharingCount |-> 234, InsiderRiskTotal |-> 19, RetentionCoveragePct |-> 65000 ],
       [ PartitionKey |-> "dept-of-health", RowKey |-> "2026-02-26T14:30:00_tenant-2",
         ComplianceScorePct |-> 85000, LabelCoveragePct |-> 88000, DlpIncidents30d |-> 3,
         ExternalSharingCount |-> 50, InsiderRiskTotal |-> 2, RetentionCoveragePct |-> 90000 ],
       [ PartitionKey |-> "dept-of-corrections", RowKey |-> "2026-02-26T14:30:00_tenant-3",
         ComplianceScorePct |-> 38200, LabelCoveragePct |-> 34000, DlpIncidents30d |-> 42,
         ExternalSharingCount |-> 567, InsiderRiskTotal |-> 31, RetentionCoveragePct |-> 25000 ] >>

\* C4: compute_statewide_aggregates returns {} for an empty list, never a
\* record with fields, and a record with every aggregate field for a non-empty
\* list.
C4_EmptyGivesEmpty ==
    Computed =>
        /\ Len(snapshots) = 0 => DOMAIN aggregates = {}
        /\ Len(snapshots) > 0 => DOMAIN aggregates = AggregateFields

\* the call was made on the empty list
C4_Witness == Computed /\ snapshots = << >> /\ DOMAIN aggregates = {}

\* C5: for a non-empty list, TotalAgencies is the number of snapshots passed in
\* and the three totals are the sums of DlpIncidents30d, ExternalSharingCount
\* and InsiderRiskTotal over all of them, two snapshots of one agency being
\* both counted and both summed; for the sample snapshots the results
\* are those test_aggregate_pipeline.py asserts.
C5_CountsAndTotals ==
    (Computed /\ Len(snapshots) > 0) =>
        /\ aggregates["TotalAgencies"] = Len(snapshots)
        /\ aggregates["TotalDlpIncidents30d"] =
              TotalOf(snapshots, "DlpIncidents30d", Len(snapshots))
        /\ aggregates["TotalExternalSharing"] =
              TotalOf(snapshots, "ExternalSharingCount", Len(snapshots))
        /\ aggregates["TotalInsiderRiskAlerts"] =
              TotalOf(snapshots, "InsiderRiskTotal", Len(snapshots))
        /\ snapshots = SampleSnapshots =>
              /\ aggregates["TotalAgencies"] = 3
              /\ aggregates["TotalDlpIncidents30d"] = 60
              /\ aggregates["TotalExternalSharing"] = 851
              /\ aggregates["TotalInsiderRiskAlerts"] = 52

\* two snapshots of dept-of-education were passed in and both were counted
C5_Witness ==
    /\ Computed
    /\ Len(snapshots) = 2
    /\ AgencyOf(snapshots[1]) = "dept-of-education"
    /\ AgencyOf(snapshots[2]) = "dept-of-education"
    /\ snapshots[1] # snapshots[2]
    /\ aggregates["TotalAgencies"] = 2
    /\ aggregates["TotalDlpIncidents30d"] = 22

Score(i) == Metric(snapshots[i], "ComplianceScorePct")

\* C6 as claimed: for a non-empty list, LowestComplianceAgency is the agency
\* id of a snapshot whose compliance score equals MinComplianceScore, the first
\* such snapshot in input order.
C6_LowestEqualsMin ==
    (Computed /\ Len(snapshots) > 0) =>
        \E i \in 1..Len(snapshots) :
            /\ Score(i) = aggregates["MinComplianceScore"]
            /\ \A j \in 1..(i - 1) : Score(j) # aggregates["MinComplianceScore"]
            /\ aggregates["LowestComplianceAgency"] = AgencyOf(snapshots[i])

\* C6, amended: for a non-empty list, LowestComplianceAgency is the agency id
\* of the first snapshot in input order whose compliance score is the smallest
\* of the list, and MinComplianceScore is that score rounded to 2 decimal
\* places.
C6_LowestIsFirstMinimum ==
    (Computed /\ Len(snapshots) > 0) =>
        \E i \in 1..Len(snapshots) :
            /\ \A j \in 1..Len(snapshots) : Score(i) <= Score(j)
            /\ \A j \in 1..(i - 1) : Score(i) < Score(j)
            /\ aggregates["LowestComplianceAgency"] = AgencyOf(snapshots[i])
            /\ IsRounded2(aggregates["MinComplianceScore"], Score(i), 1)

\* two agencies share the lowest score and the first of them in input order
\* was named
C6_Witness ==
    /\ Computed
    /\ Len(snapshots) = 3
    /\ Score(1) = 72000
    /\ Score(2) = 38200 /\ AgencyOf(snapshots[2]) = "dept-of-education"
    /\ Score(3) = 38200 /\ AgencyOf(snapshots[3]) = "dept-of-corrections"
    /\ aggregates["LowestComplianceAgency"] = "dept-of-education"
    /\ aggregates["MinComplianceScore"] = 38200

\* C7: for a non-empty list, AvgComplianceScore is the arithmetic mean and
\* MedianComplianceScore the median of ComplianceScorePct, and AvgLabelCoverage
\* the arithmetic mean of LabelCoveragePct, over all snapshots passed in, each
\* rounded to 2 decimal places; for the sample snapshots the mean score is the
\* 65.07 the tests assert.
C7_MeansAndMedian ==
    (Computed /\ Len(snapshots) > 0) =>
        LET n == Len(snapshots)
        IN  /\ IsRounded2(aggregates["AvgComplianceScore"],
                          TotalOf(snapshots, "ComplianceScorePct", n), n)
            /\ IsRoundedMedian(aggregates["MedianComplianceScore"],
                               snapshots, "ComplianceScorePct")
            /\ IsRounded2(aggregates["AvgLabelCoverage"],
                          TotalOf(snapshots, "LabelCoveragePct", n), n)
            /\ snapshots = SampleSnapshots =>
                  /\ aggregates["AvgComplianceScore"] = 65070
                  /\ aggregates["MedianComplianceScore"] = 72000
                  /\ aggregates["AvgLabelCoverage"] = 64830

\* three snapshots whose mean score 65.0666... was rounded up and whose median
\* is not the middle element of the input
C7_Witness ==
    /\ Computed
    /\ Len(snapshots) = 3
    /\ Score(1) = 85000 /\ Score(2) = 38200 /\ Score(3) = 72000
    /\ aggregates["AvgComplianceScore"] = 65070
    /\ aggregates["MedianComplianceScore"] = 72000

\* C8 as claimed: for a non-empty list Min <= Avg <= Max and Min <= Median <=
\* Max, and for a single snapshot Avg, Median, Min and Max all equal that
\* snapshot's score and LowestComplianceAgency is its agency id.
C8_OrderedAndSingleEqualsScore ==
    (Computed /\ Len(snapshots) > 0) =>
        /\ aggregates["MinComplianceScore"] <= aggregates["AvgComplianceScore"]
        /\ aggregates["AvgComplianceScore"] <= aggregates["MaxComplianceScore"]
        /\ aggregates["MinComplianceScore"] <= aggregates["MedianComplianceScore"]
        /\ aggregates["MedianComplianceScore"] <= aggregates["MaxComplianceScore"]
        /\ Len(snapshots) = 1 =>
              /\ aggregates["AvgComplianceScore"] = Score(1)
              /\ aggregates["MedianComplianceScore"] = Score(1)
              /\ aggregates["MinComplianceScore"] = Score(1)
              /\ aggregates["MaxComplianceScore"] = Score(1)
              /\ aggregates["LowestComplianceAgency"] = AgencyOf(snapshots[1])

\* C8, amended: for a non-empty list Min <= Avg <= Max and Min <= Median <=
\* Max, and for a single snapshot Avg, Median, Min and Max all equal that
\* snapshot's score rounded to 2 decimal places (the score itself when it has
\* no more than 2 decimals) and LowestComplianceAgency is its agency id.
C8_OrderedAndSingleEqualsRounded ==
    (Computed /\ Len(snapshots) > 0) =>
        /\ aggregates["MinComplianceScore"] <= aggregates["AvgComplianceScore"]
        /\ aggregates["AvgComplianceScore"] <= aggregates["MaxComplianceScore"]
        /\ aggregates["MinComplianceScore"] <= aggregates["MedianComplianceScore"]
        /\ aggregates["MedianComplianceScore"] <= aggregates["MaxComplianceScore"]
        /\ Len(snapshots) = 1 =>
              /\ IsRounded2(aggregates["MinComplianceScore"], Score(1), 1)
              /\ Score(1) % 10 = 0 => aggregates["MinComplianceScore"] = Score(1)
              /\ aggregates["AvgComplianceScore"] = aggregates["MinComplianceScore"]
              /\ aggregates["MedianComplianceScore"] = aggregates["MinComplianceScore"]
              /\ aggregates["MaxComplianceScore"] = aggregates["MinComplianceScore"]
              /\ aggregates["LowestComplianceAgency"] = AgencyOf(snapshots[1])

\* a single snapshot with score 72.0 gave 72.0 four times and its agency
C8_Witness ==
    /\ Computed
    /\ Len(snapshots) = 1
    /\ Score(1) = 72000
    /\ aggregates["AvgComplianceScore"] = 72000
    /\ aggregates["MinComplianceScore"] = 72000
    /\ aggregates["MaxComplianceScore"] = 72000
    /\ aggregates["LowestComplianceAgency"] = "dept-of-education"

MetricFields ==
    { "ComplianceScorePct", "LabelCoveragePct", "DlpIncidents30d",
      "ExternalSharingCount", "InsiderRiskTotal" }

\* the snapshot with 0 written into every metric field it lacks
ZeroFilled(s) ==
    [f \in DOMAIN s \cup MetricFields |-> IF f \in DOMAIN s THEN s[f] ELSE 0]

\* C9: when a snapshot passed in lacks a metric field the call still returns
\* (it does not raise), the snapshot counts toward TotalAgencies, and every
\* mean, extremum and total is what it is for the same list with 0 written in
\* place of each absent metric.
C9_AbsentMetricIsZero ==
    (Computed /\ \E i \in 1..Len(snapshots) : ~(MetricFields \subseteq DOMAIN snapshots[i])) =>
        LET n == Len(snapshots)
            filled == [i \in 1..n |-> ZeroFilled(snapshots[i])]
            least == CHOOSE x \in { filled[i]["ComplianceScorePct"] : i \in 1..n } :
                        \A i \in 1..n : x <= filled[i]["ComplianceScorePct"]
            most == CHOOSE x \in { filled[i]["ComplianceScorePct"] : i \in 1..n } :
                        \A i \in 1..n : x >= filled[i]["ComplianceScorePct"]
        IN  /\ DOMAIN aggregates = AggregateFields
            /\ aggregates["TotalAgencies"] = n
            /\ IsRounded2(aggregates["AvgComplianceScore"],
                          TotalOf(filled, "ComplianceScorePct", n), n)
            /\ IsRoundedMedian(aggregates["MedianComplianceScore"],
                               filled, "ComplianceScorePct")
            /\ IsRounded2(aggregates["MinComplianceScore"], least, 1)
            /\ IsRounded2(aggregates["MaxComplianceScore"], most, 1)
            /\ \E i \in 1..n :
                  /\ filled[i]["ComplianceScorePct"] = least
                  /\ aggregates["LowestComplianceAgency"] = AgencyOf(snapshots[i])
            /\ IsRounded2(aggregates["AvgLabelCoverage"],
                          TotalOf(filled, "LabelCoveragePct", n), n)
            /\ aggregates["TotalDlpIncidents30d"] = TotalOf(filled, "DlpIncidents30d", n)
            /\ aggregates["TotalExternalSharing"] = TotalOf(filled, "ExternalSharingCount", n)
            /\ aggregates["TotalInsiderRiskAlerts"] = TotalOf(filled, "InsiderRiskTotal", n)

\* a snapshot with no metric field at all was aggregated with one that has
\* them: it is counted, halves the means, and is the lowest agency
C9_Witness ==
    /\ Computed
    /\ Len(snapshots) = 2
    /\ DOMAIN snapshots[1] = { "PartitionKey", "RowKey" }
    /\ Score(2) = 85000
    /\ aggregates["TotalAgencies"] = 2
    /\ aggregates["AvgComplianceScore"] = 42500
    /\ aggregates["MinComplianceScore"] = 0
    /\ aggregates["AvgLabelCoverage"] = 44000
    /\ aggregates["TotalDlpIncidents30d"] = 3
    /\ aggregates["LowestComplianceAgency"] = "dept-of-transport"

(***************************************************************************)
(* Claims about the store and the timer, checked under Spec                *)
(***************************************************************************)

\* the agencies with a row in the table
AgenciesIn(table) == { k[1] : k \in DOMAIN table }

\* the RowKeys of the rows of an agency
RowKeysOf(table, agency) ==
    { k[2] : k \in { j \in DOMAIN table : j[1] = agency } }

\* a comes before b in lexicographic order: where they first differ, a has
\* ended or has the character of the smaller code point
LexLess(a, b) ==
    \E i \in 1..Len(b) :
        /\ i <= Len(a) + 1
        /\ SubSeq(a, 1, i - 1) = SubSeq(b, 1, i - 1)
        /\ \/ i = Len(a) + 1
           \/ Ord(Char(a, i)) < Ord(Char(b, i))

\* the row of the agency whose RowKey is lexicographically greatest
GreatestRow(table, agency) ==
    table[<< agency,
             CHOOSE rk \in RowKeysOf(table, agency) :
                 \A other \in RowKeysOf(table, agency) \ {rk} : LexLess(other, rk) >>]

GreatestRows(table) == { GreatestRow(table, agency) : agency \in AgenciesIn(table) }

\* the timer has run on the present contents of the store
TimerRan == last_call = "compute_aggregates"

\* the snapshots the timer read are the rows of the set, each once
ReadExactly(rows) ==
    /\ Len(snapshots) = Cardinality(rows)
    /\ { snapshots[i] : i \in 1..Len(snapshots) } = rows

\* C2: after any sequence of snapshot writes, read_latest_snapshots_all_agencies
\* returns exactly one snapshot for each distinct agency_id (PartitionKey) in
\* the store, namely the stored row whose RowKey '{timestamp}_{tenant_id}' is
\* lexicographically greatest among the rows of the agency; an empty store
\* gives an empty list; of a January and a February row of one tenant the
\* February one is returned, as the repository's tests assert.
C2_OneLatestPerAgency ==
    TimerRan =>
        /\ Len(snapshots) = Cardinality(AgenciesIn(AgencyPostureSnapshot))
        /\ \A agency \in AgenciesIn(AgencyPostureSnapshot) :
             \E i \in 1..Len(snapshots) :
                /\ snapshots[i] = GreatestRow(AgencyPostureSnapshot, agency)
                /\ \A j \in 1..Len(snapshots) :
                     snapshots[j]["PartitionKey"] = agency => j = i
        /\ AgencyPostureSnapshot = << >> => snapshots = << >>
        /\ << "dept-a", February \o "_" \o TenantA >> \in DOMAIN AgencyPostureSnapshot =>
             \E i \in 1..Len(snapshots) :
                snapshots[i]["RowKey"] = February \o "_" \o TenantA

\* the store holds two rows of each of two agencies and one of each was read
C2_Witness ==
    /\ TimerRan
    /\ Cardinality(DOMAIN AgencyPostureSnapshot) = 4
    /\ Len(snapshots) = 2
    /\ \E i \in 1..2 : /\ snapshots[i]["PartitionKey"] = "dept-a"
                       /\ snapshots[i]["ComplianceScoreCurrent"] = 80

Digit(c) == CHOOSE d \in 0..9 : Char("0123456789", d + 1) = c

TwoDigits(s, i) == 10 * Digit(Char(s, i)) + Digit(Char(s, i + 1))

\* the days from 1970-01-01 to the day of the Gregorian calendar
DaysFromCivil(year, month, day) ==
    LET y == IF month <= 2 THEN year - 1 ELSE year
        era == y \div 400
        yoe == y - era * 400
        doy == (153 * ((month + 9) % 12) + 2) \div 5 + day - 1
        doe == yoe * 365 + yoe \div 4 - yoe \div 100 + doy
    IN  era * 146097 + doe - 719468

\* where the UTC offset of an ISO-8601 timestamp YYYY-MM-DDTHH:MM:SS[.ffffff]+HH:MM
\* starts
OffsetAt(ts) == IF Char(ts, 20) = "." THEN 27 ELSE 20

\* the instant the timestamp names: the minutes since 1970 UTC, the seconds and
\* the microseconds
Instant(ts) ==
    LET days == DaysFromCivil(100 * TwoDigits(ts, 1) + TwoDigits(ts, 3),
                              TwoDigits(ts, 6), TwoDigits(ts, 9))
        z == OffsetAt(ts)
        offset == (IF Char(ts, z) = "-" THEN -1 ELSE 1)
                      * (60 * TwoDigits(ts, z + 1) + TwoDigits(ts, z + 4))
    IN  << (days * 24 + TwoDigits(ts, 12)) * 60 + TwoDigits(ts, 15) - offset,
           TwoDigits(ts, 18),
           IF Char(ts, 20) = "."
           THEN 10000 * TwoDigits(ts, 21) + 100 * TwoDigits(ts, 23) + TwoDigits(ts, 25)
           ELSE 0 >>

\* the instant a is earlier than the instant b
Earlier(a, b) ==
    \/ a[1] < b[1]
    \/ a[1] = b[1] /\ a[2] < b[2]
    \/ a[1] = b[1] /\ a[2] = b[2] /\ a[3] < b[3]

\* the rows no row of the same agency is more recent than; a RowKey starts
\* with the timestamp
MostRecentRows(table) ==
    { table[k] : k \in { j \in DOMAIN table :
                           \A o \in DOMAIN table :
                              o[1] = j[1] => ~ Earlier(Instant(j[2]), Instant(o[2])) } }

\* every timestamp of the agency is written in UTC, as the collector writes it
SameClock(table, agency) ==
    \A rk \in RowKeysOf(table, agency) :
        SubSeq(rk, OffsetAt(rk), OffsetAt(rk) + 5) = "+00:00"

\* the lists the timer can read from the table
Selections(table) ==
    { read_latest_snapshots_all_agencies(all_entities).value :
        all_entities \in Listings(table) }

\* the aggregate is computed, with TotalAgencies the number of agencies of the
\* store and every total and mean taken over the snapshots read
AggregateOfSnapshotsRead ==
    LET n == Len(snapshots)
    IN  /\ Computed
        /\ aggregates["TotalAgencies"] = Cardinality(AgenciesIn(AgencyPostureSnapshot))
        /\ aggregates["TotalAgencies"] = n
        /\ aggregates["TotalDlpIncidents30d"] = TotalOf(snapshots, "DlpIncidents30d", n)
        /\ aggregates["TotalExternalSharing"] = TotalOf(snapshots, "ExternalSharingCount", n)
        /\ aggregates["TotalInsiderRiskAlerts"] = TotalOf(snapshots, "InsiderRiskTotal", n)
        /\ IsRounded2(aggregates["AvgComplianceScore"],
                      TotalOf(snapshots, "ComplianceScorePct", n), n)
        /\ IsRounded2(aggregates["AvgLabelCoverage"],
                      TotalOf(snapshots, "LabelCoveragePct", n), n)

ParentsOf(tax, i) ==
    { j \in 1..Len(tax) :
        /\ j # i
        /\ "parent_label_id" \in DOMAIN tax[i]
        /\ "label_id" \in DOMAIN tax[j]
        /\ tax[i]["parent_label_id"] = tax[j]["label_id"] }

\* C11 as stated: a child label whose parent_label_id names another label of
\* the taxonomy gets the tier computed from that label's name together with
\* its own name, and the parent's tier value is not copied to it.  Stated for
\* the entries the collector writes (get_sensitivity_labels), which carry a
\* parent_label_id and no parent_label_name.
C11_ChildTierFromParentName ==
    calls >= 1 =>
        \A i \in 1..Len(taxonomy_in) : \A j \in ParentsOf(taxonomy_in, i) :
            ~ TierSet(taxonomy_in[i]) /\ "parent_label_name" \notin DOMAIN taxonomy_in[i] =>
                taxonomy[i]["normalized_tier"] =
                    normalize_label_tier(Get(taxonomy_in[i], "label_name", ""),
                                         Get(taxonomy_in[j], "label_name", ""))

(***************************************************************************)
(* C12: the tiers of the label map                                         *)
(***************************************************************************)

\* C12: after any sequence of ingest requests, every row of
\* LabelNormalizationMap has a NormalizedTier that is one of Public,
\* Internal, Confidential, Restricted
C12_LabelMapTierIsStandard ==
    \A k \in DOMAIN LabelNormalizationMap :
        LabelNormalizationMap[k]["NormalizedTier"] \in Tiers

(***************************************************************************)
(* C13: letter case                                                        *)
(***************************************************************************)

\* str.swapcase() of one character
SwapCaseChar(c) == IF LowerChar(c) # c THEN LowerChar(c) ELSE UpperChar(c)

\* one character of s.upper(), s.lower() or s.swapcase(); with ascii only the
\* letters A-Z and a-z change
Recased(c, how, ascii) ==
    IF ascii /\ c = LongS THEN c
    ELSE IF how = "upper" THEN UpperChar(c)
    ELSE IF how = "lower" THEN LowerChar(c)
    ELSE SwapCaseChar(c)

RECURSIVE RecaseFrom(_, _, _, _)
RecaseFrom(s, how, ascii, i) ==
    IF i > Len(s) THEN ""
    ELSE Recased(Char(s, i), how, ascii) \o RecaseFrom(s, how, ascii, i + 1)

\* s with the case of its i-th character changed
FlipAt(s, i, ascii) ==
    SubSeq(s, 1, i - 1) \o Recased(Char(s, i), "swapcase", ascii)
                        \o SubSeq(s, i + 1, Len(s))

\* s with the letter case of some of its characters changed: all of them
\* raised, lowered or exchanged, or one of them exchanged
CaseVariants(s, ascii) ==
    { RecaseFrom(s, how, ascii, 1) : how \in { "upper", "lower", "swapcase" } }
    \cup { FlipAt(s, i, ascii) : i \in 1..Len(s) }

\* the call's tier is the tier of the case variants of its arguments
SameTierInAnyCase(ascii) ==
    ret_tier # NotCalled =>
        /\ \A l \in CaseVariants(arg_label_name, ascii) :
               normalize_label_tier(l, arg_parent_name) = ret_tier
        /\ \A p \in CaseVariants(arg_parent_name, ascii) :
               normalize_label_tier(arg_label_name, p) = ret_tier
        /\ \A how \in { "upper", "lower", "swapcase" } :
               normalize_label_tier(RecaseFrom(arg_label_name, how, ascii, 1),
                                    RecaseFrom(arg_parent_name, how, ascii, 1))
                   = ret_tier

\* C13: changing the case of letters among A-Z and a-z in label_name or
\* parent_name does not change the tier normalize_label_tier returns
C13_CaseInsensitiveOnAsciiLetters == SameTierInAnyCase(TRUE)

\* C13 as stated: changing the letter case of any characters of either
\* argument does not change the returned tier
C13_CaseInsensitive == SameTierInAnyCase(FALSE)

\* normalize_label_tier("PUBLIC") has returned Public
C13_Witness ==
    /\ arg_label_name = "PUBLIC"
    /\ arg_parent_name = ""
    /\ ret_tier = "Public"
    /\ "public" \in CaseVariants(arg_label_name, TRUE)

(***************************************************************************)
(* C14: unanchored matching                                                *)
(***************************************************************************)

\* C14: whenever a keyword of Restricted occurs anywhere in the lowercased
\* text of parent_name and label_name, inside a longer word or after a
\* negation too, normalize_label_tier returns Restricted, whatever keywords
\* of the other tiers occur
C14_RestrictedKeywordAnywhere ==
    ret_tier # NotCalled /\
    TierMatches("Restricted", Lower(arg_parent_name \o " " \o arg_label_name))
        => ret_tier = "Restricted"

\* "Not Restricted For Staff" under the parent "Confidential": keywords of
\* three tiers occur and the call has returned Restricted
C14_Witness ==
    /\ arg_label_name = "Not Restricted For Staff"
    /\ arg_parent_name = "Confidential"
    /\ TierMatches("Confidential", Lower(arg_parent_name \o " " \o arg_label_name))
    /\ TierMatches("Internal", Lower(arg_parent_name \o " " \o arg_label_name))
    /\ ret_tier = "Restricted"

\* "Unrestricted" under the parent "Public": the keyword restricted occurs
\* inside a word that is a keyword of Public, and the call has returned
\* Restricted
C14_WitnessInsideWord ==
    /\ arg_label_name = "Unrestricted"
    /\ arg_parent_name = "Public"
    /\ ret_tier = "Restricted"

(***************************************************************************)
(* C15, C16: the selection on equal, malformed and missing sort keys       *)
(***************************************************************************)

\* the positions in listed of the entities of an agency whose RowKey is rk
PositionsOf(agency, rk) ==
    { i \in 1..Len(listed) :
        /\ "RowKey" \in DOMAIN listed[i]
        /\ listed[i]["PartitionKey"] = agency
        /\ listed[i]["RowKey"] = rk }

\* the smallest or the greatest of a set of positions
First(positions) == CHOOSE i \in positions : \A j \in positions : i <= j
Last(positions) == CHOOSE i \in positions : \A j \in positions : j <= i

\* the call returned, and of an agency whose selected sort key is carried by
\* several entities of listed it gave the one pick(positions) names
TiePick(pick(_)) ==
    selected.called /\ selected.raises = "" =>
        \A k \in 1..Len(selected.value) :
            LET entity == selected.value[k]
                positions == PositionsOf(entity["PartitionKey"], entity["RowKey"])
            IN  "RowKey" \in DOMAIN entity /\ Cardinality(positions) > 1 =>
                    entity = listed[pick(positions)]

C16_SelectionNeverRaises ==
    selected.called =>
        /\ selected.raises = ""
        /\ { selected.value[k]["PartitionKey"] : k \in 1..Len(selected.value) }
               = { listed[i]["PartitionKey"] : i \in 1..Len(listed) }
        /\ \A j, k \in 1..Len(selected.value) :
               selected.value[j]["PartitionKey"] = selected.value[k]["PartitionKey"]
                   => j = k

(***************************************************************************)
(* C17..C20: what ingest_posture writes and what it rejects                *)
(***************************************************************************)

\* the request handled last carried a JSON body that has the field
Supplies(req, field) == req.json /\ field \in DOMAIN req.body

\* the step wrote nothing
NothingWritten ==
    UNCHANGED <<AgencyPostureSnapshot, LabelNormalizationMap, AssessmentSummary>>

\* ComplianceScorePct of the row is current / max * 100 rounded to 2 decimal
\* places when max > 0, and 0 when max is 0
ScorePctRounded(row) ==
    IF row["ComplianceScoreMax"] > 0
    THEN IsRounded2(row["ComplianceScorePct"],
                    row["ComplianceScoreCurrent"] * 100000, row["ComplianceScoreMax"])
    ELSE row["ComplianceScorePct"] = 0

\* ComplianceScorePct of the row is current / max * 100 when max > 0, and 0
\* when max is 0
ScorePctExact(row) ==
    IF row["ComplianceScoreMax"] > 0
    THEN row["ComplianceScorePct"] * row["ComplianceScoreMax"]
             = row["ComplianceScoreCurrent"] * 100000
    ELSE row["ComplianceScorePct"] = 0

\* C17, corrected: after every request, each row of AgencyPostureSnapshot has
\* ComplianceScorePct = round(current / max * 100, 2) of its own two scores
\* when max > 0 and 0 when max is 0, and a request whose body supplies
\* compliance_score_pct is answered 400 and writes nothing
C17_ScorePctDerivedAndRounded ==
    [][ /\ \A k \in DOMAIN AgencyPostureSnapshot' :
               ScorePctRounded(AgencyPostureSnapshot'[k])
        /\ Supplies(request', "compliance_score_pct") =>
               response' = 400 /\ NothingWritten ]_vars

\* C17 as stated: ComplianceScorePct = current / max * 100 when max > 0 and 0
\* when max is 0, and a request whose body supplies compliance_score_pct is
\* answered 400 and writes nothing
C17_ScorePctDerived ==
    [][ /\ \A k \in DOMAIN AgencyPostureSnapshot' :
               ScorePctExact(AgencyPostureSnapshot'[k])
        /\ Supplies(request', "compliance_score_pct") =>
               response' = 400 /\ NothingWritten ]_vars

\* rows with a maximum of 0 and of 3 are stored, the second with a score
\* that had to be rounded, and a request supplying compliance_score_pct has
\* been answered 400
C17_Witness ==
    /\ \E k \in DOMAIN AgencyPostureSnapshot :
           /\ AgencyPostureSnapshot[k]["ComplianceScoreMax"] = 0
           /\ AgencyPostureSnapshot[k]["ComplianceScorePct"] = 0
    /\ \E k \in DOMAIN AgencyPostureSnapshot :
           /\ AgencyPostureSnapshot[k]["ComplianceScoreMax"] = 3
           /\ AgencyPostureSnapshot[k]["ComplianceScoreCurrent"] = 1
           /\ AgencyPostureSnapshot[k]["ComplianceScorePct"] = 33330
    /\ Supplies(request, "compliance_score_pct")
    /\ response = 400

\* the columns of AgencyPostureSnapshot that hold percentages and counts
PercentColumns == { "LabelCoveragePct", "RetentionCoveragePct", "ComplianceScorePct" }

CountColumns ==
    { "UnlabeledSensitiveCount", "DlpIncidents30d", "DlpIncidents60d",
      "DlpIncidents90d", "ExternalSharingCount", "RetentionPolicyCount",
      "InsiderRiskHigh", "InsiderRiskMedium", "InsiderRiskLow", "InsiderRiskTotal",
      "ImprovementActionsImplemented", "ImprovementActionsPlanned",
      "ImprovementActionsNotStarted" }

\* C18: after any sequence of ingest requests, every row of
\* AgencyPostureSnapshot has LabelCoveragePct, RetentionCoveragePct and
\* ComplianceScorePct within [0, 100] and every count >= 0
C18_PercentagesAndCountsInRange ==
    \A k \in DOMAIN AgencyPostureSnapshot :
        /\ \A c \in PercentColumns :
               0 <= AgencyPostureSnapshot[k][c] /\ AgencyPostureSnapshot[k][c] <= 100000
        /\ \A c \in CountColumns : AgencyPostureSnapshot[k][c] >= 0

\* PassRate of the row is passed / total * 100 rounded to 2 decimal places
\* when total > 0, and 0 otherwise
PassRateRounded(row) ==
    IF row["TotalControls"] > 0
    THEN IsRounded2(row["PassRate"], row["PassedControls"] * 100000, row["TotalControls"])
    ELSE row["PassRate"] = 0

\* the row of AssessmentSummary the assessment of the payload is stored in
StoredAs(table, payload, assessment) ==
    LET key == << payload["agency_id"],
                  payload["tenant_id"] \o "_" \o assessment["assessment_id"] >>
    IN  /\ key \in DOMAIN table
        /\ table[key]["PassedControls"] = Get(assessment, "passed_controls", 0)
        /\ table[key]["TotalControls"] = Get(assessment, "total_controls", 0)
        /\ PassRateRounded(table[key])

\* C19: after every request, every row of AssessmentSummary has PassRate =
\* passed_controls / total_controls * 100 to 2 decimals when total_controls > 0
\* and 0 when it is 0 or absent, and a request answered 200 has a row stored
\* for every assessment of its payload
C19_PassRateOfEveryAssessment ==
    [][ /\ \A k \in DOMAIN AssessmentSummary' : PassRateRounded(AssessmentSummary'[k])
        /\ response' = 200 =>
               \A i \in 1..Len(request'.body["assessments"]) :
                   StoredAs(AssessmentSummary', request'.body,
                            request'.body["assessments"][i]) ]_vars

\* assessments with 45 of 57 controls passed, with total_controls 0 and with
\* no total_controls are stored, with PassRate 78.95, 0 and 0
C19_Witness ==
    /\ \E k \in DOMAIN AssessmentSummary :
           /\ AssessmentSummary[k]["PassedControls"] = 45
           /\ AssessmentSummary[k]["TotalControls"] = 57
           /\ AssessmentSummary[k]["PassRate"] = 78950
    /\ \E k \in DOMAIN AssessmentSummary :
           /\ AssessmentSummary[k]["PassedControls"] = 3
           /\ AssessmentSummary[k]["TotalControls"] = 0
           /\ AssessmentSummary[k]["PassRate"] = 0
    /\ \E k \in DOMAIN AssessmentSummary :
           /\ AssessmentSummary[k]["PassedControls"] = 5
           /\ AssessmentSummary[k]["TotalControls"] = 0
           /\ AssessmentSummary[k]["PassRate"] = 0
    /\ Supplies(request, "assessments")
    /\ \E i \in 1..Len(request.body["assessments"]) :
           "total_controls" \notin DOMAIN request.body["assessments"][i]
    /\ response = 200

HexDigits == "0123456789abcdefABCDEF"

\* s has the format 8-4-4-4-12: groups of 8, 4, 4, 4 and 12 hexadecimal
\* digits with a dash between them
IsUuidFormat(s) ==
    /\ Len(s) = 36
    /\ \A i \in 1..36 :
           IF i \in {9, 14, 19, 24} THEN Char(s, i) = "-"
           ELSE \E h \in 1..Len(HexDigits) : Char(s, i) = Char(HexDigits, h)

\* the request is one of those the ingestion has to reject: its body is not
\* valid JSON, lacks a required field, has a percentage outside [0, 100], a
\* negative count, an unknown field or a malformed tenant identifier
ToBeRejected(req) ==
    \/ ~ req.json
    \/ \E f \in RequiredFields : f \notin DOMAIN req.body
    \/ \E f \in PercentFields :
           f \in DOMAIN req.body /\ (req.body[f] < 0 \/ req.body[f] > 100000)
    \/ \E f \in IntegerFields : f \in DOMAIN req.body /\ req.body[f] < 0
    \/ \E f \in DOMAIN req.body : f \notin SchemaProperties
    \/ "tenant_id" \in DOMAIN req.body /\ ~ IsUuidFormat(req.body["tenant_id"])

\* C20: a request whose body is not valid JSON, lacks a required field, has a
\* percentage outside [0, 100], a negative count, an unknown field or a
\* malformed tenant identifier is answered 400 and no row is written to
\* AgencyPostureSnapshot, LabelNormalizationMap or AssessmentSummary
C20_RejectedRequestWritesNothing ==
    [][ ToBeRejected(request') => response' = 400 /\ NothingWritten ]_vars

(***************************************************************************)
(* C21..C23: tenant identifiers and the allow-lists                        *)
(***************************************************************************)

\* the request handled last passed validate_ingestion_request: ingest_posture
\* went on to the writes and answered 200 or 500
PassedValidation == response \in {200, 500}

\* C21: a payload passes validation only if its tenant_id has the format
\* 8-4-4-4-12
C21_TenantIdIsUuid ==
    PassedValidation => IsUuidFormat(request.body["tenant_id"])


\* s begins with p, s ends with p
StartsWith(s, p) == Len(s) >= Len(p) /\ SubSeq(s, 1, Len(p)) = p
EndsWith(s, p) == Len(s) >= Len(p) /\ SubSeq(s, Len(s) - Len(p) + 1, Len(s)) = p

\* every row of the three tables belongs to a tenant of the set: the posture
\* rows by their TenantId and the tenant their RowKey ends with, the label and
\* assessment rows by the tenant their RowKey starts with
RowsBelongTo(tenants) ==
    /\ \A k \in DOMAIN AgencyPostureSnapshot :
           /\ AgencyPostureSnapshot[k]["TenantId"] \in tenants
           /\ \E t \in tenants : EndsWith(k[2], "_" \o t)
    /\ \A k \in DOMAIN LabelNormalizationMap :
           \E t \in tenants : StartsWith(k[2], t \o "_")
    /\ \A k \in DOMAIN AssessmentSummary :
           \E t \in tenants : StartsWith(k[2], t \o "_")

\* the requests whose body parses and fits the schema
SchemaValidRequests == { req \in Requests : req.json /\ SchemaValid(req.body) }

\* the thumbprint of the certificate of each request that has one
ThumbprintOf ==
    [ req \in Requests |-> IF req.cert = "" THEN "" ELSE _extract_thumbprint(req.cert) ]

\* the request has a certificate the settings accept, or none is asked for
CertificateAccepted(req) ==
    \/ settings.allowed_thumbprints = {}
    \/ req.cert # "" /\ ThumbprintOf[req] \in settings.allowed_thumbprints

\* the request gets through the certificate check, parses and fits the schema
SchemaValidRequest(req) ==
    CertificateAccepted(req) /\ req \in SchemaValidRequests

\* C22: with a non-empty tenant allow-list every row of every table belongs
\* to a listed tenant, and a request that is valid but for a tenant outside
\* the list is rejected with "not in allow-list" and writes nothing; with an
\* empty allow-list every schema-valid request is accepted whatever its tenant
C22_TenantAllowList ==
    [][ /\ settings.allowed_tenants # {} =>
            /\ RowsBelongTo(settings.allowed_tenants)'
            /\ ( /\ SchemaValidRequest(request')
                 /\ request'.body["tenant_id"] \notin settings.allowed_tenants )
               => /\ response' = 400
                  /\ NothingWritten
                  /\ Validated[settings][request'].error = "Tenant not in allow-list"
        /\ ( settings.allowed_tenants = {} /\ SchemaValidRequest(request') )
           => response' # 400 ]_vars

\* the allow-list is set, a listed tenant has rows in all three tables and the
\* request handled last, valid but for another tenant, was rejected
C22_Witness ==
    /\ settings.allowed_tenants # {}
    /\ AgencyPostureSnapshot # << >>
    /\ LabelNormalizationMap # << >>
    /\ AssessmentSummary # << >>
    /\ request # NoRequest
    /\ SchemaValidRequest(request)
    /\ request.body["tenant_id"] \notin settings.allowed_tenants
    /\ response = 400

\* the allow-list is empty and a request of a tenant other than the sample
\* tenant was accepted and stored
C22_WitnessEmptyList ==
    /\ settings.allowed_tenants = {}
    /\ request # NoRequest
    /\ SchemaValidRequest(request)
    /\ request.body["tenant_id"] = TenantB
    /\ response = 200


\* the request has no X-ARR-ClientCert header, or a certificate whose
\* thumbprint the settings do not list
CertificateRefused(req) ==
    \/ req.cert = ""
    \/ ThumbprintOf[req] \notin settings.allowed_thumbprints

\* C23: with thumbprints configured a request without certificate or with an
\* unlisted one is rejected, nothing is written, and the error is the
\* certificate's whatever the body is; without thumbprints the certificate
\* plays no part: the request is rejected exactly when its body does not
\* parse, does not fit the schema or names a tenant outside the allow-list
C23_CertificateCheckedFirst ==
    [][ /\ ( settings.allowed_thumbprints # {} /\ CertificateRefused(request') )
           => /\ response' = 400
              /\ NothingWritten
              /\ Validated[settings][request'].error
                     = IF request'.cert = "" THEN "Missing client certificate"
                       ELSE "Certificate thumbprint not in allow-list"
        /\ settings.allowed_thumbprints = {}
           => ( response' = 400
                <=> \/ request' \notin SchemaValidRequests
                    \/ /\ settings.allowed_tenants # {}
                       /\ request'.body["tenant_id"] \notin settings.allowed_tenants ) ]_vars

\* thumbprints are configured, a request with the listed certificate has been
\* stored, and the request handled last, with another certificate and a body
\* that is not JSON, was rejected
C23_Witness ==
    /\ settings.allowed_thumbprints # {}
    /\ AgencyPostureSnapshot # << >>
    /\ request # NoRequest
    /\ request.cert = CertB
    /\ ~ request.json
    /\ response = 400

\* no thumbprints are configured and a request with a certificate no list
\* holds was stored
C23_WitnessNoThumbprints ==
    /\ settings.allowed_thumbprints = {}
    /\ request # NoRequest
    /\ request.cert = CertB
    /\ response = 200


(***************************************************************************)
(* Calls of write_posture_snapshot on payloads that share or differ in     *)
(* agency, tenant and timestamp                                            *)
(***************************************************************************)

\* tests/conftest.py::sample_payload for two agencies, two tenants and two
\* timestamps, each with the score of the sample's resubmission in
\* test_upsert_overwrites_same_snapshot and with another
KeyedPayloads ==
    { Payload(agency_id, tenant_id, timestamp, current, 100, 7, << >>) :
        agency_id \in {"dept-of-education", "dept-of-health"},
        tenant_id \in {TenantA, TenantB},
        timestamp \in {January, February},
        current \in {72, 90} }

\* write_posture_snapshot(payload, normalized_labels) as ingest_posture calls it
Call_write_posture_snapshot_keyed ==
    \E payload \in KeyedPayloads :
      LET normalized_labels == normalize_labels(payload["label_taxonomy"])
      IN  \E up \in SUBSET ScoreTies(payload), nows \in [1..Len(normalized_labels) -> Instants] :
            /\ AgencyPostureSnapshot' =
                   write_posture_snapshot(AgencyPostureSnapshot, payload, up)
            /\ LabelNormalizationMap' =
                   _write_label_map(LabelNormalizationMap, payload["agency_id"],
                                    payload["tenant_id"], normalized_labels, nows)
            /\ last_call' = "write_posture_snapshot"
            /\ snapshots' = << >>
            /\ aggregates' = NotComputed
            /\ UNCHANGED <<tierVars, labelVars, ingestVars, selectVars>>

NextPosture == Call_write_posture_snapshot_keyed

SpecPosture == Init /\ [][NextPosture]_vars

(***************************************************************************)
(* C24, C25: the rows of AgencyPostureSnapshot                             *)
(***************************************************************************)

\* (agency_id, timestamp, tenant_id) of a payload
TripleOf(payload) == << payload["agency_id"], payload["timestamp"], payload["tenant_id"] >>

\* (agency_id, timestamp, tenant_id) of a row: the timestamp is what its
\* RowKey has before "_" and the tenant
RowTriple(row) ==
    << row["PartitionKey"],
       SubSeq(row["RowKey"], 1, Len(row["RowKey"]) - Len(row["TenantId"]) - 1),
       row["TenantId"] >>

\* the keys the table's rows were written for
TriplesOf(table) == { RowTriple(table[k]) : k \in DOMAIN table }

\* the table's key of a payload
PostureKey(payload) ==
    << payload["agency_id"], payload["timestamp"] \o "_" \o payload["tenant_id"] >>

\* the columns of the row are the values of the payload
CarriesValuesOf(row, payload) ==
    /\ row["TenantId"] = payload["tenant_id"]
    /\ row["ComplianceScoreCurrent"] = payload["compliance_score_current"]
    /\ row["ComplianceScoreMax"] = payload["compliance_score_max"]
    /\ row["DlpIncidents30d"] = payload["dlp_incidents_30d"]
    /\ row["LabelCoveragePct"] = payload["label_coverage_pct"]

\* C24: each call of write_posture_snapshot leaves the row of its payload
\* under the key (agency_id, '{timestamp}_{tenant_id}') with the payload's
\* values and every other row as it was; the table gains a row exactly when
\* no row had the payload's (agency_id, timestamp, tenant_id), so it holds
\* one row per distinct triple written
C24_OneRowPerKey ==
    [][ \E payload \in KeyedPayloads :
          LET key == PostureKey(payload)
          IN  /\ DOMAIN AgencyPostureSnapshot' = DOMAIN AgencyPostureSnapshot \cup {key}
              /\ CarriesValuesOf(AgencyPostureSnapshot'[key], payload)
              /\ \A k \in DOMAIN AgencyPostureSnapshot :
                     k # key => AgencyPostureSnapshot'[k] = AgencyPostureSnapshot[k]
              /\ key \in DOMAIN AgencyPostureSnapshot
                     <=> TripleOf(payload) \in TriplesOf(AgencyPostureSnapshot)
              /\ TriplesOf(AgencyPostureSnapshot')
                     = TriplesOf(AgencyPostureSnapshot) \cup {TripleOf(payload)}
              /\ Cardinality(DOMAIN AgencyPostureSnapshot')
                     = Cardinality(TriplesOf(AgencyPostureSnapshot')) ]_vars

\* the sample has been written for both tenants, both agencies and both
\* timestamps, and the resubmission with score 90 has replaced a row
C24_Witness ==
    /\ Cardinality(DOMAIN AgencyPostureSnapshot) = 8
    /\ \E k \in DOMAIN AgencyPostureSnapshot :
           AgencyPostureSnapshot[k]["ComplianceScoreCurrent"] = 90
    /\ \E k \in DOMAIN AgencyPostureSnapshot :
           AgencyPostureSnapshot[k]["ComplianceScoreCurrent"] = 72


\* C25 as stated: a call of write_posture_snapshot leaves every row the table
\* holds in place and unmodified
C25_AppendOnly ==
    [][ \A k \in DOMAIN AgencyPostureSnapshot :
          /\ k \in DOMAIN AgencyPostureSnapshot'
          /\ AgencyPostureSnapshot'[k] = AgencyPostureSnapshot[k] ]_vars

\* C25: no call of write_posture_snapshot deletes a row, and the only row a
\* call modifies is the one with the (agency_id, timestamp, tenant_id) of its
\* own payload, which it replaces; a payload with another key is added
\* alongside the rows of its agency
C25_KeptUnlessResubmitted ==
    [][ /\ DOMAIN AgencyPostureSnapshot \subseteq DOMAIN AgencyPostureSnapshot'
        /\ \A k \in DOMAIN AgencyPostureSnapshot :
               AgencyPostureSnapshot'[k] # AgencyPostureSnapshot[k]
               => /\ DOMAIN AgencyPostureSnapshot' = DOMAIN AgencyPostureSnapshot
                  /\ \E payload \in KeyedPayloads :
                         /\ PostureKey(payload) = k
                         /\ CarriesValuesOf(AgencyPostureSnapshot'[k], payload)
                  /\ \A other \in DOMAIN AgencyPostureSnapshot \ {k} :
                         AgencyPostureSnapshot'[other] = AgencyPostureSnapshot[other] ]_vars

\* an agency has its January snapshot and, alongside it, the later one of
\* February of the same tenant, one of them resubmitted with the score 90
C25_Witness ==
    \E k1, k2 \in DOMAIN AgencyPostureSnapshot :
        /\ k1[1] = k2[1]
        /\ AgencyPostureSnapshot[k1]["TenantId"] = AgencyPostureSnapshot[k2]["TenantId"]
        /\ StartsWith(k1[2], January)
        /\ StartsWith(k2[2], February)
        /\ AgencyPostureSnapshot[k1]["ComplianceScoreCurrent"] = 72
        /\ AgencyPostureSnapshot[k2]["ComplianceScoreCurrent"] = 90


(***************************************************************************)
(* Calls of write_assessment_summaries                                     *)
(***************************************************************************)

\* write_assessment_summaries(payload), as to AssessmentSummary: the entities
\* are upserted in the order of the payload, up to the first assessment that
\* has no assessment_id
write_assessment_summaries(table, payload, up) ==
    LET assessments == Get(payload, "assessments", << >>)
        n == LeadingWith(assessments, "assessment_id", 1)
        upserts == [ i \in 1..n |->
                       [ table |-> "AssessmentSummary",
                         entity |-> AssessmentEntity(payload, assessments[i], up) ] ]
    IN  Upserted(table, "AssessmentSummary", upserts, n)

\* the assessment test_multiple_assessments_all_written appends to the sample
HipaaAssessment ==
    [assessment_id |-> "asmt-002", regulation |-> "HIPAA",
     display_name |-> "HIPAA Security Rule", compliance_score |-> 81000,
     passed_controls |-> 60, failed_controls |-> 10, total_controls |-> 70]

\* the sample payload of two tenants as collected on February 26th, later
\* that day and on the 27th, with the sample's assessment, with that
\* assessment after five more controls passed, and with the HIPAA one added
AssessmentPayloads ==
    { Put(Put(Put(SamplePayload, "tenant_id", tenant_id), "timestamp", timestamp),
          "assessments", assessments) :
        tenant_id \in {SamplePayload["tenant_id"], TenantB},
        timestamp \in {SamplePayload["timestamp"], "2026-02-26T18:00:00+00:00",
                       "2026-02-27T14:30:00+00:00"},
        assessments \in
            { SamplePayload["assessments"],
              << Put(Put(SamplePayload["assessments"][1], "passed_controls", 50),
                     "failed_controls", 7) >>,
              SamplePayload["assessments"] \o << HipaaAssessment >> } }

Call_write_assessment_summaries ==
    \E payload \in AssessmentPayloads :
      \E up \in SUBSET UNION { PassTies(payload["assessments"][i]) :
                                 i \in 1..Len(payload["assessments"]) } :
        /\ AssessmentSummary' = write_assessment_summaries(AssessmentSummary, payload, up)
        /\ last_call' = "write_assessment_summaries"
        /\ UNCHANGED <<AgencyPostureSnapshot, LabelNormalizationMap, settings, request,
                       response, tierVars, labelVars, aggVars, selectVars>>

NextAssessments == Call_write_assessment_summaries

SpecAssessments == Init /\ [][NextAssessments]_vars

(***************************************************************************)
(* C26: the rows of AssessmentSummary                                      *)
(***************************************************************************)

\* (agency_id, '{tenant_id}_{assessment_id}', snapshot date) of the rows
KeyDatesOf(table) ==
    { << table[k]["PartitionKey"], table[k]["RowKey"], table[k]["SnapshotDate"] >> :
        k \in DOMAIN table }

\* (agency_id, '{tenant_id}_{assessment_id}', snapshot date) of the
\* assessments of a payload
KeyDatesIn(payload) ==
    { << payload["agency_id"],
         payload["tenant_id"] \o "_" \o payload["assessments"][i]["assessment_id"],
         SnapshotDateOf(payload["timestamp"]) >> : i \in 1..Len(payload["assessments"]) }

\* C26: each call of write_assessment_summaries adds the (agency, tenant,
\* assessment, snapshot date) of every assessment of its payload to those the
\* table has rows for, keeping the rows of other snapshot dates, and the table
\* holds one row for each of them
C26_OneRowPerKeyPerDate ==
    [][ \E payload \in AssessmentPayloads :
          /\ KeyDatesOf(AssessmentSummary')
                 = KeyDatesOf(AssessmentSummary) \cup KeyDatesIn(payload)
          /\ Cardinality(DOMAIN AssessmentSummary')
                 = Cardinality(KeyDatesOf(AssessmentSummary')) ]_vars


(***************************************************************************)
(* collector/payload.py: the collector's PAYLOAD_SCHEMA                    *)
(***************************************************************************)

\* the "required" of the items of label_taxonomy and of assessments
LabelItemRequired == { "label_id", "label_name" }
AssessmentItemRequired ==
    { "assessment_id", "regulation", "display_name", "compliance_score" }

\* jsonschema.validate(instance=payload, schema=collector.payload.PAYLOAD_SCHEMA)
\* raises nothing: the schema has the top-level keywords of the ingestion's
\* and, besides, "items" for the two arrays and "format": "date-time" for the
\* timestamp, which validate() does not assert as no format checker is given
CollectorSchemaValid(payload) ==
    /\ SchemaValid(payload)
    /\ \A i \in 1..Len(payload["label_taxonomy"]) :
           LabelItemRequired \subseteq DOMAIN payload["label_taxonomy"][i]
    /\ \A i \in 1..Len(payload["assessments"]) :
           AssessmentItemRequired \subseteq DOMAIN payload["assessments"][i]

(***************************************************************************)
(* C27: the two schemas                                                    *)
(***************************************************************************)

\* C27: the body of a request fits the schema of the ingestion if and only
\* if it fits the schema of the collector
C27_SchemasAcceptTheSame ==
    request.json => ( SchemaValid(request.body) <=> CollectorSchemaValid(request.body) )


(***************************************************************************)
(* C28: what a request leaves in the three tables                          *)
(***************************************************************************)

\* the snapshot row of the payload is in the table AgencyPostureSnapshot
SnapshotStored(table, payload) ==
    /\ PostureKey(payload) \in DOMAIN table
    /\ CarriesValuesOf(table[PostureKey(payload)], payload)

\* the key of the row of the i-th label, of the j-th assessment
LabelKey(payload, i) ==
    << payload["agency_id"],
       payload["tenant_id"] \o "_" \o payload["label_taxonomy"][i]["label_id"] >>
AssessmentKey(payload, j) ==
    << payload["agency_id"],
       payload["tenant_id"] \o "_" \o payload["assessments"][j]["assessment_id"] >>

\* the row of the i-th label of the payload is in the table LabelNormalizationMap
LabelStored(table, payload, i) ==
    /\ "label_id" \in DOMAIN payload["label_taxonomy"][i]
    /\ LabelKey(payload, i) \in DOMAIN table
    /\ table[LabelKey(payload, i)]["LabelName"]
           = Get(payload["label_taxonomy"][i], "label_name", "")

\* the row of the j-th assessment of the payload is in the table AssessmentSummary
AssessmentStored(table, payload, j) ==
    /\ "assessment_id" \in DOMAIN payload["assessments"][j]
    /\ AssessmentKey(payload, j) \in DOMAIN table
    /\ table[AssessmentKey(payload, j)]["PassedControls"]
           = Get(payload["assessments"][j], "passed_controls", 0)
    /\ table[AssessmentKey(payload, j)]["SnapshotDate"]
           = SnapshotDateOf(payload["timestamp"])

\* every row of the payload is in its table
AllStored(snapshot_table, label_table, assessment_table, payload) ==
    /\ SnapshotStored(snapshot_table, payload)
    /\ \A i \in 1..Len(payload["label_taxonomy"]) : LabelStored(label_table, payload, i)
    /\ \A j \in 1..Len(payload["assessments"]) :
           AssessmentStored(assessment_table, payload, j)

\* the step changed the row the table has under the key
RowChanged(before, after, key) ==
    \/ key \in DOMAIN after /\ key \notin DOMAIN before
    \/ key \in DOMAIN after /\ key \in DOMAIN before /\ after[key] # before[key]

\* the step removed no row of the table
NoRowRemoved(before, after) == DOMAIN before \subseteq DOMAIN after

\* C28 as stated: a request answered 200 has all its rows stored and a
\* request answered 500 leaves the three tables as they were
C28_AllOrNothing ==
    [][ /\ response' = 200 => AllStored(AgencyPostureSnapshot', LabelNormalizationMap',
                                       AssessmentSummary', request'.body)
        /\ response' = 500 => NothingWritten ]_vars

\* C28: a request answered 200 has all its rows stored and a request answered
\* 400 writes nothing; a request answered 500 removes no row and leaves
\* behind a leading part of its writes: a label row it wrote has the snapshot
\* row and the label rows before it stored, an assessment row it wrote has
\* the snapshot row, every label row and the assessment rows before it stored
C28_WritesInOrderUntilFailure ==
    [][ LET payload == request'.body
        IN  /\ response' = 200 => AllStored(AgencyPostureSnapshot', LabelNormalizationMap',
                                         AssessmentSummary', payload)
            /\ response' = 400 => NothingWritten
            /\ response' = 500 =>
                 /\ NoRowRemoved(AgencyPostureSnapshot, AgencyPostureSnapshot')
                 /\ NoRowRemoved(LabelNormalizationMap, LabelNormalizationMap')
                 /\ NoRowRemoved(AssessmentSummary, AssessmentSummary')
                 /\ \A k \in DOMAIN AgencyPostureSnapshot' :
                        RowChanged(AgencyPostureSnapshot, AgencyPostureSnapshot', k)
                        => k = PostureKey(payload) /\ SnapshotStored(AgencyPostureSnapshot', payload)
                 /\ \A k \in DOMAIN LabelNormalizationMap' :
                        RowChanged(LabelNormalizationMap, LabelNormalizationMap', k)
                        => /\ SnapshotStored(AgencyPostureSnapshot', payload)
                           /\ \E i \in 1..Len(payload["label_taxonomy"]) :
                                  /\ \A h \in 1..i : LabelStored(LabelNormalizationMap', payload, h)
                                  /\ k = LabelKey(payload, i)
                 /\ \A k \in DOMAIN AssessmentSummary' :
                        RowChanged(AssessmentSummary, AssessmentSummary', k)
                        => /\ SnapshotStored(AgencyPostureSnapshot', payload)
                           /\ \A i \in 1..Len(payload["label_taxonomy"]) :
                                  LabelStored(LabelNormalizationMap', payload, i)
                           /\ \E j \in 1..Len(payload["assessments"]) :
                                  /\ \A h \in 1..j : AssessmentStored(AssessmentSummary', payload, h)
                                  /\ k = AssessmentKey(payload, j) ]_vars

\* the request handled last was answered 500 and its snapshot row is stored
\* while a row of one of its labels is not
C28_Witness ==
    /\ response = 500
    /\ SnapshotStored(AgencyPostureSnapshot, request.body)
    /\ \E i \in 1..Len(request.body["label_taxonomy"]) :
           ~ LabelStored(LabelNormalizationMap, request.body, i)


(***************************************************************************)
(* Calls of normalize_label_tier on the keywords of TIER_KEYWORDS          *)
(***************************************************************************)

\* the keywords of all tiers
Keywords ==
    UNION { { TIER_KEYWORDS[tier][k] : k \in 1..Len(TIER_KEYWORDS[tier]) } :
              tier \in DOMAIN TIER_KEYWORDS }

InitKeywords ==
    /\ arg_label_name \in Keywords
    /\ arg_parent_name \in ParentNames
    /\ ret_tier = NotCalled
    /\ LabelsIdle
    /\ AggIdle
    /\ StoreIdle
    /\ IngestIdle
    /\ SelectIdle

SpecKeywords == InitKeywords /\ [][NextTier]_vars

(***************************************************************************)
(* C29: the keywords themselves                                            *)
(***************************************************************************)

\* C29: normalize_label_tier(k), called without parent name on a keyword k,
\* returns the tier under which TIER_KEYWORDS lists k
C29_KeywordClassifiesToItsTier ==
    ( ret_tier # NotCalled /\ arg_parent_name = "" )
    => \A tier \in DOMAIN TIER_KEYWORDS :
           arg_label_name \in { TIER_KEYWORDS[tier][k] : k \in 1..Len(TIER_KEYWORDS[tier]) }
           => ret_tier = tier


(***************************************************************************)
(* C30: the order of the snapshots                                         *)
(***************************************************************************)

\* the lists that hold the elements of xs in another order
Reorderings(xs) ==
    { [i \in 1..Len(xs) |-> xs[p[i]]] :
        p \in { f \in [1..Len(xs) -> 1..Len(xs)] :
                  \A i, j \in 1..Len(xs) : i # j => f[i] # f[j] } }

\* no two snapshots of the list have the same ComplianceScorePct
DistinctScores(snaps) ==
    \A i, j \in 1..Len(snaps) :
        i # j => Get(snaps[i], "ComplianceScorePct", 0) # Get(snaps[j], "ComplianceScorePct", 0)

\* the fields of the aggregates other than SnapshotDate
WithoutDate(aggs) == Without(aggs, "SnapshotDate")

\* C30: a call of compute_statewide_aggregates leaves its input list as it
\* was, and on a non-empty list of pairwise distinct compliance scores it
\* returns, SnapshotDate apart, what it returns on every reordering of the list
C30_OrderIndependent ==
    [][ /\ snapshots' = snapshots
        /\ ( Len(snapshots) > 0 /\ DistinctScores(snapshots) )
           => \A up \in SUBSET Ties(snapshots) :
                  aggregates' = compute_statewide_aggregates(
                                    snapshots, aggregates'["SnapshotDate"], up)
                  => \A reordered \in Reorderings(snapshots), today \in Dates :
                         WithoutDate(compute_statewide_aggregates(reordered, today, up))
                             = WithoutDate(aggregates') ]_vars

\* the aggregates of three snapshots of distinct scores, given with the
\* highest score first and the lowest second, have been computed
C30_Witness ==
    /\ aggregates # NotComputed
    /\ Len(snapshots) = 3
    /\ DistinctScores(snapshots)
    /\ Get(snapshots[1], "ComplianceScorePct", 0) > Get(snapshots[3], "ComplianceScorePct", 0)
    /\ Get(snapshots[3], "ComplianceScorePct", 0) > Get(snapshots[2], "ComplianceScorePct", 0)

============================================================================
